---- MODULE Spec2Model ----
(***************************************************************************)
(* Orchestration core of the code generator: the task scheduler            *)
(* (TaskManifest), the phase state machine (OrchestratorSession), the      *)
(* streaming agent loop (BaseAgent._run_react_loop), the websocket driver  *)
(* (chat_ws) and the run of the implementation agents (BaseAgent.run).     *)
(***************************************************************************)
EXTENDS Integers, Sequences, FiniteSets, TLC

\* ------------------------------------------------------------------ bounds
DrainTasks == 4      \* tasks of a manifest drained by the scheduler loop
DrainDeps == 2       \* dependencies per task in those manifests
SchedTasks == 2      \* tasks of a manifest the scheduler calls are applied to
SchedDeps == 2       \* dependencies per task in those manifests
MaxConns == 2        \* websocket connections to the project
MaxFrames == 2       \* frames a connection receives

\* ------------------------------------------------------------------ state
VARIABLES
    tobj,        \* heap of Task objects: tobj[r] is the Task with reference r
    mobj,        \* heap of TaskManifest objects: mobj[m] is its list of Task references
    manifest,    \* SharedState.manifest: a reference into mobj, 0 for None
    current_phase,     \* SharedState.current_phase
    spec,              \* SharedState.spec: 1 for a ProjectSpec, 0 for None
    errors,            \* SharedState.errors
    saved,             \* the shared_state row of the project, "none" when absent
    session_cancelled, \* OrchestratorSession._cancelled
    active_agent,      \* OrchestratorSession._active_agent, "none" for None
    current_task,      \* OrchestratorSession._current_task: a Task reference, 0 for None
    agents,            \* OrchestratorSession._agents: the BaseAgent instances by name
    messages,          \* _current_messages of the active agent
    origin,            \* the orchestrator method that started the active agent's run
    pc,          \* where the run_agent task of the connection stands, "idle" when none runs
    susp,        \* the task is parked at an await or a yield
    ctx,         \* the orchestrator method that iterates the agent's loop
    cont,        \* where the orchestrator goes on after save_state
    round,       \* rounds of _run_react_loop done in this invocation
    calls,       \* tool_calls_list of the round
    ci,          \* position in tool_calls_list
    tres,        \* result of the tool call being handled
    term,        \* how _run_react_loop ended, "none" while it runs
    nmsg,        \* user messages received since the initial state
    nstop,       \* stop requests received
    out,         \* events sent by the last step
    dpc,         \* position of the scheduler loop: "loop" or "done"
    drained,     \* references of the tasks get_next_task has returned, in order
    op,          \* the TaskManifest method called last, "none" before any call
    ret,         \* what that call returned (a Task reference, 0 for None)
    arg,         \* the arguments of that call, 0 when it takes none
    agent_task,  \* agent_task of each connection: none, created, running, done;
                 \* closed once the connection is gone
    frames,      \* frames each connection has received
    files_modified,   \* files_modified of BaseAgent.run of an implementation agent
    verify_attempts,  \* verify_attempts of that run
    tool_calls_acc,   \* tool_calls_acc of the round: the calls rebuilt so far, by index
    stream,      \* what the model stream has still to deliver of each tool call
    sessions,    \* _sessions[project_id]: a session reference, 0 when the key is absent
    opening,     \* _get_or_create_session of each connection: its position and session
    created,     \* OrchestratorSession objects created so far
    attempt,     \* chat_completion_stream: the attempt of the creation loop
    raised,      \* the exceptions the create calls of this call have raised, in order
    slept,       \* the delays this call has passed to asyncio.sleep, in order
    yielded      \* the chunks this call has yielded

heapVars == <<tobj, mobj>>
stateVars == <<current_phase, spec, manifest, errors>>
sessionVars == <<session_cancelled, active_agent, current_task, agents, messages, origin>>
loopVars == <<ctx, cont, round, calls, ci, tres, term>>
envVars == <<nmsg, nstop>>
schedVars == <<dpc, drained, op, ret, arg>>
orchVars == <<current_phase, spec, errors, saved, sessionVars, pc, susp, loopVars,
              envVars, out>>

chatVars == <<agent_task, frames>>
runVars == <<files_modified, verify_attempts, tool_calls_acc, stream>>
openVars == <<sessions, opening, created>>
llmVars == <<attempt, raised, slept, yielded>>
otherVars == <<runVars, openVars, llmVars>>

vars == <<tobj, mobj, manifest, orchVars, schedVars, chatVars, otherVars>>

\* ------------------------------------------------------------------ Task
\* Task(id, ..., dependencies, status="pending", retries=0, error=None)
Task(id, deps, agent) ==
    [id |-> id, deps |-> deps, agent |-> agent,
     status |-> "pending", retries |-> 0, error |-> "none"]

RECURSIVE SeqToSet(_)
SeqToSet(s) == IF s = <<>> THEN {} ELSE {Head(s)} \cup SeqToSet(Tail(s))

\* ------------------------------------------------------------------ TaskManifest
\* All operations take the task heap h and the manifest's list l of references.

\* completed_ids = {t.id for t in self.tasks if t.status == "completed"}
completed_ids(h, l) ==
    {h[l[i]].id : i \in {j \in 1..Len(l) : h[l[j]].status = "completed"}}

\* The for loop of get_next_task from position i on: the reference of the
\* first pending task whose dependencies are all in done, 0 for None.
\* Mutant: the status test is dropped, so a task that is not pending is returned.
RECURSIVE next_from_any_status(_, _, _, _)
next_from_any_status(h, l, done, i) ==
    IF i > Len(l) THEN 0
    ELSE IF \A dep \in h[l[i]].deps : dep \in done
         THEN l[i]
         ELSE next_from_any_status(h, l, done, i + 1)

RECURSIVE next_from(_, _, _, _)
next_from(h, l, done, i) ==
    IF i > Len(l) THEN 0
    ELSE IF h[l[i]].status = "pending" /\ (\A dep \in h[l[i]].deps : dep \in done)
         THEN l[i]
         ELSE next_from(h, l, done, i + 1)

\* Mutant: the status filter of completed_ids is dropped.
get_next_task_any_status(h, l) ==
    next_from(h, l, {h[l[i]].id : i \in 1..Len(l)}, 1)

get_next_task(h, l) == next_from(h, l, completed_ids(h, l), 1)

all_complete(h, l) == \A i \in 1..Len(l) : h[l[i]].status = "completed"

\* The for loop shared by mark_complete, mark_failed and reset_for_retry: the
\* reference of the first task of the list whose id is task_id, 0 when none.
RECURSIVE find_from(_, _, _, _)
find_from(h, l, task_id, i) ==
    IF i > Len(l) THEN 0
    ELSE IF h[l[i]].id = task_id THEN l[i]
         ELSE find_from(h, l, task_id, i + 1)

find_task(h, l, task_id) == find_from(h, l, task_id, 1)

mark_complete(h, l, task_id) ==
    LET r == find_task(h, l, task_id)
    IN  IF r = 0 THEN h ELSE [h EXCEPT ![r].status = "completed"]

\* Mutant: the retry counter is not incremented.
mark_failed_without_count(h, l, task_id, error) ==
    LET r == find_task(h, l, task_id)
    IN  IF r = 0 THEN h
        ELSE [h EXCEPT ![r].status = "failed", ![r].error = error]

mark_failed(h, l, task_id, error) ==
    LET r == find_task(h, l, task_id)
    IN  IF r = 0 THEN h
        ELSE [h EXCEPT ![r].status = "failed",
                       ![r].retries = @ + 1,
                       ![r].error = error]

reset_for_retry(h, l, task_id) ==
    LET r == find_task(h, l, task_id)
    IN  IF r = 0 THEN h ELSE [h EXCEPT ![r].status = "pending"]

\* self.tasks.extend(new_tasks)
append_tasks(l, new_tasks) == l \o new_tasks

\* ------------------------------------------------------------------ session
\* The names _register_agents registers.
Agents == {"clarification", "planning", "scaffold", "database", "api", "devops"}

\* What execute_tool returned for a call: its kind and, for a submitted
\* plan, the list of tasks.
ToolResult(kind, plan) == [kind |-> kind, plan |-> plan]

NoResult == ToolResult("none", <<>>)

\* BaseAgent.__init__
InitAgent ==
    [pending |-> 0, cancelled |-> FALSE,
     result |-> [status |-> "success", spec |-> 0, manifest |-> 0]]

\* No BaseAgent.run of an implementation agent has started.
NoRun ==
    /\ files_modified = <<>>
    /\ verify_attempts = 0
    /\ tool_calls_acc = <<>>
    /\ stream = <<>>

\* Every connection is accepted and has got the one session of the project.
NoOpen ==
    /\ sessions = 1
    /\ opening = [c \in 1..MaxConns |-> [pc |-> "open", session |-> 1]]
    /\ created = 1

\* No chat_completion_stream call is followed.
NoLlm ==
    /\ attempt = 0
    /\ raised = <<>>
    /\ slept = <<>>
    /\ yielded = 0

\* OrchestratorSession.__init__ for a project without a shared_state row, and
\* a connection on which no message has arrived.
InitSession ==
    /\ current_phase = "research"
    /\ spec = 0
    /\ errors = <<>>
    /\ saved = "none"
    /\ session_cancelled = FALSE
    /\ active_agent = "none"
    /\ current_task = 0
    /\ agents = [a \in Agents |-> InitAgent]
    /\ messages = <<>>
    /\ origin = "none"
    /\ pc = "idle"
    /\ susp = FALSE
    /\ ctx = "none"
    /\ cont = "none"
    /\ round = 0
    /\ calls = <<>>
    /\ ci = 0
    /\ tres = NoResult
    /\ term = "none"
    /\ nmsg = 0
    /\ nstop = 0
    /\ out = <<>>
    /\ agent_task = [c \in 1..MaxConns |-> "none"]
    /\ frames = [c \in 1..MaxConns |-> 0]

\* ------------------------------------------------------------------ scheduler loop
\* The loop "task = get_next_task(); mark_complete(task.id)" over a manifest
\* whose tasks all start pending (test_manifest_dependency_ordering).

\* The dependency sets a task may take among the identifiers ids.
DepSets(ids) == {d \in SUBSET ids : Cardinality(d) <= DrainDeps}

\* The orders in which the n tasks of a manifest can be completed.
Perms(n) == {p \in [1..n -> 1..n] : \A i, j \in 1..n : p[i] = p[j] => i = j}

\* The dependency assignments under which the tasks p[1..k] can be completed
\* in the order p: each depends only on tasks that come before it in p.
RECURSIVE DagDeps(_, _)
DagDeps(p, k) ==
    IF k = 0 THEN {<<>>}
    ELSE {f @@ (p[k] :> d) : f \in DagDeps(p, k - 1),
                             d \in DepSets({p[j] : j \in 1..(k - 1)})}

\* Manifests of n tasks, all pending, with the distinct identifiers 1..n in
\* manifest order, whose dependencies form a DAG over those identifiers.
DrainManifests(n) ==
    {[i \in 1..n |-> Task(i, ds[i], "api")] :
        ds \in UNION {DagDeps(p, n) : p \in Perms(n)}}

InitDrain ==
    /\ \E n \in 1..DrainTasks :
         /\ tobj \in DrainManifests(n)
         /\ mobj = << [i \in 1..n |-> i] >>
    /\ manifest = 1
    /\ dpc = "loop"
    /\ drained = <<>>
    /\ op = "none"
    /\ ret = 0
    /\ arg = 0
    /\ InitSession
    /\ NoRun
    /\ NoOpen
    /\ NoLlm

DrainStep ==
    /\ dpc = "loop"
    /\ LET task == get_next_task(tobj, mobj[manifest])
       IN  /\ task # 0
           /\ tobj' = mark_complete(tobj, mobj[manifest], tobj[task].id)
           /\ drained' = Append(drained, task)
    /\ UNCHANGED <<mobj, manifest, dpc, op, ret, arg, orchVars, chatVars, otherVars>>

DrainStop ==
    /\ dpc = "loop"
    /\ get_next_task(tobj, mobj[manifest]) = 0
    /\ dpc' = "done"
    /\ UNCHANGED <<tobj, mobj, manifest, drained, op, ret, arg, orchVars, chatVars, otherVars>>

NextDrain == DrainStep \/ DrainStop

SpecDrain == InitDrain /\ [][NextDrain]_vars

\* The tasks of the manifest in manifest order.
Tasks == [i \in 1..Len(mobj[manifest]) |-> tobj[mobj[manifest][i]]]

\* C1: draining a DAG manifest whose tasks all start pending returns each
\* task exactly once and only after all of its dependencies, always finds a
\* next task while some task is not completed, and ends with all_complete()
\* true.
C1_DrainInDependencyOrder ==
    /\ \A j, k \in 1..Len(drained) : drained[j] = drained[k] => j = k
    /\ \A k \in 1..Len(drained) :
         \A dep \in tobj[drained[k]].deps :
            \E j \in 1..(k - 1) : tobj[drained[j]].id = dep
    /\ (dpc = "loop" /\ ~all_complete(tobj, mobj[manifest]))
          => get_next_task(tobj, mobj[manifest]) # 0
    /\ dpc = "done"
          => /\ all_complete(tobj, mobj[manifest])
             /\ SeqToSet(drained) = SeqToSet(mobj[manifest])

\* The manifest A, B(A), C(A), D(B, C) has been drained: A first, D last.
C1_Witness ==
    /\ dpc = "done"
    /\ Len(Tasks) = 4
    /\ Tasks[1].deps = {} /\ Tasks[2].deps = {1}
    /\ Tasks[3].deps = {1} /\ Tasks[4].deps = {2, 3}
    /\ drained[1] = 1 /\ drained[4] = 4

\* ------------------------------------------------------------------ scheduler calls
\* get_next_task applied to manifests in any status.

Statuses == {"pending", "running", "completed", "failed"}

\* Identifiers a dependency can name: those of the manifest and one more.
SchedIds == 1..(SchedTasks + 1)

SchedDepSets == {d \in SUBSET SchedIds : Cardinality(d) <= SchedDeps}

SchedManifests(n) ==
    {[i \in 1..n |-> [Task(i, ds[i], "api") EXCEPT !.status = st[i]]] :
        ds \in [1..n -> SchedDepSets], st \in [1..n -> Statuses]}

InitSched ==
    /\ \E n \in 1..SchedTasks :
         /\ tobj \in SchedManifests(n)
         /\ mobj = << [i \in 1..n |-> i] >>
    /\ manifest = 1
    /\ dpc = "done"
    /\ drained = <<>>
    /\ op = "none"
    /\ ret = 0
    /\ arg = 0
    /\ InitSession
    /\ NoRun
    /\ NoOpen
    /\ NoLlm

SchedGetNext ==
    /\ op = "none"
    /\ op' = "get_next_task"
    /\ ret' = get_next_task(tobj, mobj[manifest])
    /\ UNCHANGED <<tobj, mobj, manifest, dpc, drained, arg, orchVars, chatVars, otherVars>>

NextSched == SchedGetNext

SpecSched == InitSched /\ [][NextSched]_vars

\* Position i of the manifest holds a pending task whose every dependency is
\* the identifier of a completed task.
Eligible(i) ==
    /\ Tasks[i].status = "pending"
    /\ \A dep \in Tasks[i].deps :
         \E j \in 1..Len(Tasks) : Tasks[j].status = "completed" /\ Tasks[j].id = dep

\* C2: get_next_task returns the first task in manifest order that is pending
\* with all dependencies completed, and None exactly when all tasks are
\* completed or no pending task has all its dependencies completed.
C2_NextIsFirstEligible ==
    op = "get_next_task" =>
        /\ ret # 0 =>
              \E i \in 1..Len(Tasks) :
                  /\ mobj[manifest][i] = ret
                  /\ Eligible(i)
                  /\ \A j \in 1..(i - 1) : ~Eligible(j)
        /\ ret = 0 <=>
              \/ all_complete(tobj, mobj[manifest])
              \/ ~\E i \in 1..Len(Tasks) : Eligible(i)

\* get_next_task skipped an earlier task (not pending, or waiting for a
\* dependency) and returned a later one.
C2_Witness ==
    /\ op = "get_next_task"
    /\ ret = 2
    /\ Tasks[2].deps # {}
    /\ Tasks[1].status = "completed"

\* ------------------------------------------------------------------ orchestrator bounds
MaxMessages == 2     \* user messages a connection sends
MaxStops == 1        \* stop requests sent to the session
MaxRounds == 2       \* max_tool_rounds of an agent
MaxCalls == 1        \* tool calls in one model turn
MaxPlans == 1        \* manifests the planner submits
MaxPlanTasks == 2    \* tasks in a submitted manifest
MaxId == 2           \* task identifiers the planner uses
MaxDeps == 1         \* dependencies per task in a submitted manifest
ImplTasks == 2       \* tasks of the manifest an implementation run starts from

\* "if task.retries < 3" in _run_implementation
MaxRetries == 3

\* ------------------------------------------------------------------ events and turns
\* AgentEvent: id is the tool_call_id or the task_id the event carries,
\* from/to the phases of a phase_transition.
Ev(type, id) == [type |-> type, id |-> id, from |-> "none", to |-> "none"]

Transition(from, to) ==
    [type |-> "phase_transition", id |-> 0, from |-> from, to |-> to]

\* agent_message_start, agent_message_delta, agent_message_end
Say == <<Ev("agent_message_start", 0), Ev("agent_message_delta", 0),
         Ev("agent_message_end", 0)>>

\* A turn of a message list: tool_calls are the call ids of an assistant
\* turn, tool_call_id the call a tool turn answers.
Turn(role, tool_calls, tool_call_id) ==
    [role |-> role, tool_calls |-> tool_calls, tool_call_id |-> tool_call_id]

\* messages = [system prompt, user content] built by run()
FirstMessages == <<Turn("system", <<>>, 0), Turn("user", <<>>, 0)>>

\* tool_names: the tools get_tool_schemas offers the model in a turn of
\* agent a. read_file stands for every tool without a special result. The
\* planning agent has no ask_user; for the other agents the tools are those
\* whose outcome the orchestrator handles in their run: ask_user and the
\* spec of finalize_spec in _run_research, ask_user and build_complete in
\* _run_implementation, build_complete in _run_validation.
tool_names(a) ==
    IF a = "planning" THEN {"read_file", "submit_plan"}
    ELSE IF a = "clarification" THEN {"read_file", "ask_user", "finalize_spec"}
    ELSE {"read_file", "ask_user", "build_complete"}

ToolNames == UNION {tool_names(a) : a \in Agents}

\* tool_calls_list of a turn of agent a: up to MaxCalls names.
CallLists(a) == UNION {[1..n -> tool_names(a)] : n \in 0..MaxCalls}

\* The id the model gives the i-th call of the turn that ends the list msgs:
\* ids are unique within a message list.
TcId(msgs, i) == Len(msgs) * MaxCalls + i

\* ------------------------------------------------------------------ control
Goto(p, s, evs) ==
    /\ pc' = p
    /\ susp' = s
    /\ out' = evs

\* The generator chain of the run has nothing left to do: run_agent ends.
End(evs) == Goto("end", FALSE, evs)

\* Top of "for _ in range(self.max_tool_rounds)" of agent a with r rounds
\* done, after the events pre: the loop is exhausted, sees the cancellation,
\* or opens the next model stream.
LoopTop(a, r, pre) ==
    /\ round' = r
    /\ IF r >= MaxRounds
       THEN Goto("ret", TRUE, pre \o <<Ev("error", 0)>>) /\ term' = "exhausted"
       ELSE IF agents[a].cancelled
            THEN Goto("ret", TRUE, pre \o <<Ev("stopped", 0)>>) /\ term' = "cancelled"
            ELSE Goto("stream", TRUE, pre) /\ term' = "none"

\* Mutant: ask_user is handed to execute_tool like any other tool.
ToolTop_executes_ask_user(a, cs, i, r) ==
    IF i > Len(cs)
    THEN /\ LoopTop(a, r + 1, <<>>)
         /\ ci' = 0
         /\ agents' = agents
    ELSE /\ ci' = i
         /\ round' = r
         /\ agents' = agents
         /\ IF agents[a].cancelled
            THEN Goto("ret", FALSE, <<>>) /\ term' = "cancelled"
            ELSE Goto("exec", TRUE, <<Ev("tool_call_start", cs[i].id)>>) /\ term' = "none"

\* Top of "for tc in tool_calls_list" at position i of the calls cs.
ToolTop(a, cs, i, r) ==
    IF i > Len(cs)
    THEN /\ LoopTop(a, r + 1, <<>>)
         /\ ci' = 0
         /\ agents' = agents
    ELSE /\ ci' = i
         /\ round' = r
         /\ IF agents[a].cancelled
            THEN /\ Goto("ret", FALSE, <<>>)
                 /\ term' = "cancelled"
                 /\ agents' = agents
            ELSE IF cs[i].name = "ask_user"
                 THEN /\ agents' = [agents EXCEPT ![a].pending = cs[i].id]
                      /\ End(<<Ev("ask_user", cs[i].id)>>)
                      /\ term' = "ask_user"
                 ELSE /\ Goto("exec", TRUE, <<Ev("tool_call_start", cs[i].id)>>)
                      /\ term' = "none"
                      /\ agents' = agents

\* run() of a specialist other than the planning agent. Their modules for
\* this BaseAgent are not among the sources; run() is taken to do what
\* PlanningAgent.run does: build the message list and enter the loop.
AgentRun(a, c, pre) ==
    /\ active_agent' = a
    /\ ctx' = c
    /\ origin' = c
    /\ messages' = FirstMessages
    /\ LoopTop(a, 0, pre)

\* OrchestratorSession.cancel
cancel(ag) ==
    IF active_agent = "none" THEN ag
    ELSE [ag EXCEPT ![active_agent].cancelled = TRUE]

NoLocals ==
    /\ ctx' = "none"
    /\ cont' = "none"
    /\ round' = 0
    /\ calls' = <<>>
    /\ ci' = 0
    /\ tres' = NoResult
    /\ term' = "none"

\* ------------------------------------------------------------------ chat_ws
\* The connection's receive loop. A frame is handled while run_agent is
\* parked at an await or a yield, or when no run_agent is alive.
Parked == pc = "idle" \/ susp

\* A user message: "if agent_task and not agent_task.done()" cancel the
\* session and the task, then create the run_agent task for the message.
ReceiveMessage ==
    /\ Parked
    /\ nmsg < MaxMessages
    /\ nmsg' = nmsg + 1
    /\ IF pc = "idle"
       THEN /\ out' = <<>>
            /\ UNCHANGED <<session_cancelled, agents>>
       ELSE /\ out' = <<Ev("stopped", 0)>>
            /\ session_cancelled' = TRUE
            /\ agents' = cancel(agents)
    /\ pc' = "hum"
    /\ susp' = FALSE
    /\ NoLocals
    /\ UNCHANGED <<heapVars, stateVars, saved, active_agent, current_task, messages,
                   nstop, schedVars, chatVars, otherVars>>
    /\ UNCHANGED origin

\* A stop request on the connection that owns the run.
ReceiveStop ==
    /\ Parked
    /\ nstop < MaxStops
    /\ nstop' = nstop + 1
    /\ session_cancelled' = TRUE
    /\ agents' = cancel(agents)
    /\ out' = IF pc = "idle" THEN <<Ev("stopped", 0)>>
              ELSE <<Ev("stopped", 0), Ev("stopped", 0)>>
    /\ pc' = "idle"
    /\ susp' = FALSE
    /\ NoLocals
    /\ UNCHANGED <<heapVars, stateVars, saved, active_agent, current_task, messages,
                   nmsg, schedVars, chatVars, otherVars>>
    /\ UNCHANGED origin

\* A stop request on another connection to the same project while the run
\* is parked: session.cancel(), and no task of that connection to cancel.
StopElsewhere ==
    /\ pc # "idle"
    /\ susp
    /\ nstop < MaxStops
    /\ nstop' = nstop + 1
    /\ session_cancelled' = TRUE
    /\ agents' = cancel(agents)
    /\ out' = <<>>
    /\ UNCHANGED <<heapVars, stateVars, saved, active_agent, current_task, messages,
                   pc, susp, loopVars, nmsg, schedVars, chatVars, otherVars>>
    /\ UNCHANGED origin

\* run_agent returns: the generator is exhausted, or the event sent last was
\* ask_user.
Finish ==
    /\ pc = "end"
    /\ pc' = "idle"
    /\ susp' = FALSE
    /\ out' = <<>>
    /\ NoLocals
    /\ UNCHANGED <<heapVars, stateVars, saved, sessionVars, envVars, schedVars, chatVars, otherVars>>

\* ------------------------------------------------------------------ handle_user_message
\* Mutant: the answer is appended as a user turn.
resume_as_user_turn(msgs, tc_id) == Append(msgs, Turn("user", <<>>, 0))

\* BaseAgent.resume_after_ask_user
resume_after_ask_user(msgs, tc_id) == Append(msgs, Turn("tool", <<>>, tc_id))

is_waiting_for_user(a) == agents[a].pending # 0

InterruptPhases == {"implementation", "validation", "complete"}

HandleUserMessage ==
    /\ pc = "hum"
    /\ session_cancelled' = FALSE
    /\ cont' = "none"
    /\ tres' = NoResult
    /\ IF active_agent # "none" /\ is_waiting_for_user(active_agent)
       THEN \* _resume_agent_with_answer
            /\ messages' = resume_after_ask_user(messages, agents[active_agent].pending)
            /\ agents' = [agents EXCEPT ![active_agent].pending = 0]
            /\ ctx' = "resume"
            /\ calls' = <<>>
            /\ ci' = 0
            /\ LoopTop(active_agent, 0, <<>>)
            /\ UNCHANGED active_agent
       ELSE /\ IF current_phase \in InterruptPhases
               THEN Goto("classify", TRUE, <<>>)
               ELSE Goto(current_phase, FALSE, <<>>)
            /\ UNCHANGED <<active_agent, agents, messages, ctx, round, term, calls, ci>>
    /\ UNCHANGED <<heapVars, stateVars, saved, current_task, envVars, schedVars, chatVars, otherVars>>
    /\ UNCHANGED origin

\* ------------------------------------------------------------------ _run_react_loop
\* A chunk of the model stream arrives: "if self._cancelled: return", else
\* the text of the chunk is passed on.
StreamChunk ==
    /\ pc = "stream"
    /\ IF agents[active_agent].cancelled
       THEN Goto("ret", FALSE, <<>>) /\ term' = "cancelled"
       ELSE Goto("stream", TRUE, <<Ev("agent_message_delta", 0)>>) /\ term' = "none"
    /\ UNCHANGED <<heapVars, stateVars, saved, sessionVars, ctx, cont, round, calls, ci,
                   tres, envVars, schedVars, chatVars, otherVars>>

\* chat_completion_stream raises: the error event is yielded.
StreamError ==
    /\ pc = "stream"
    /\ Goto("llm_error", TRUE, <<Ev("error", 0)>>)
    /\ UNCHANGED <<heapVars, stateVars, saved, sessionVars, loopVars, envVars, schedVars, chatVars, otherVars>>

\* Mutant: after the failure the loop goes on with its next round.
StreamErrorResult_next_round ==
    /\ pc = "llm_error"
    /\ agents' = [agents EXCEPT ![active_agent].result =
                     [status |-> "error", spec |-> 0, manifest |-> 0]]
    /\ LoopTop(active_agent, round + 1, <<>>)
    /\ UNCHANGED <<heapVars, stateVars, saved, session_cancelled, active_agent,
                   current_task, messages, ctx, cont, calls, ci, tres,
                   envVars, schedVars, chatVars, otherVars>>
    /\ UNCHANGED origin

\* self._result = AgentResult(status="error", ...); return
StreamErrorResult ==
    /\ pc = "llm_error"
    /\ agents' = [agents EXCEPT ![active_agent].result =
                     [status |-> "error", spec |-> 0, manifest |-> 0]]
    /\ Goto("ret", FALSE, <<>>)
    /\ term' = "error"
    /\ UNCHANGED <<heapVars, stateVars, saved, session_cancelled, active_agent,
                   current_task, messages, ctx, cont, round, calls, ci, tres,
                   envVars, schedVars, chatVars, otherVars>>
    /\ UNCHANGED origin

\* The stream ends with the tool calls names, whose argument texts are raw
\* ("json" for a text that parses, "malformed" for one that does not), and
\* with text when text is TRUE.
FinishRound(names, raw, text) ==
    /\ pc = "stream"
    /\ IF names # <<>>
       THEN LET cs == [i \in 1..Len(names) |->
                          [name |-> names[i], id |-> TcId(messages, i),
                           arguments |-> raw[i]]]
            IN  /\ messages' = Append(messages,
                                  Turn("assistant", [i \in 1..Len(cs) |-> cs[i].id], 0))
                /\ calls' = cs
                /\ ToolTop(active_agent, cs, 1, round)
       ELSE /\ messages' = IF text THEN Append(messages, Turn("assistant", <<>>, 0))
                           ELSE messages
            /\ Goto("ret", FALSE, <<>>)
            /\ term' = "done"
            /\ UNCHANGED <<agents, calls, ci, round>>
    /\ UNCHANGED <<heapVars, stateVars, saved, session_cancelled, active_agent,
                   current_task, ctx, cont, tres, envVars, schedVars, chatVars>>
    /\ UNCHANGED origin

\* The round of ModelTurn, where the locals of the round are not followed.
ModelTurn(names, raw, text) ==
    /\ FinishRound(names, raw, text)
    /\ UNCHANGED otherVars

\* The model calls tools of the schemas it was given, with arguments that parse.
StreamEnd(names, text) ==
    /\ names \in CallLists(active_agent)
    /\ ModelTurn(names, [i \in 1..Len(names) |-> "json"], text)

\* Task.agent of the tasks the planner emits.
TaskAgents == {"api"}

PlanTask ==
    [id : 1..MaxId,
     deps : {d \in SUBSET (1..MaxId) : Cardinality(d) <= MaxDeps},
     agent : TaskAgents]

\* The lists of tasks a manifest_json can hold, the empty list included.
Plans == UNION {[1..n -> PlanTask] : n \in 0..MaxPlanTasks}

\* What execute_tool returns for the call: the sentinel of finalize_spec
\* with a spec_json that parses ("spec") or not ("no_spec"), the sentinel of
\* submit_plan with a manifest_json that is not a list of tasks ("no_plan") or
\* with the list of tasks it holds ("plan"), "text" for any other tool.
ToolResults(name) ==
    IF name = "finalize_spec"
    THEN {ToolResult("spec", <<>>), ToolResult("no_spec", <<>>)}
    ELSE IF name = "submit_plan"
         THEN {ToolResult("no_plan", <<>>)}
              \cup (IF Len(mobj) < MaxPlans
                    THEN {ToolResult("plan", p) : p \in Plans} ELSE {})
         ELSE {ToolResult("text", <<>>)}

\* execute_tool(project, name, args), where args is {} when the argument
\* text of the call is malformed: finalize_spec and submit_plan then take
\* their defaults "{}" and "[]", the empty list of tasks.
execute_tool(name, arguments) ==
    IF arguments = "malformed"
    THEN {r \in ToolResults(name) : r.kind # "no_plan" /\ r.plan = <<>>}
    ELSE ToolResults(name)

\* execute_tool returns result: the tool turn is appended and the
\* tool_call_result event yielded.
ToolDone(result) ==
    /\ pc = "exec"
    /\ result \in execute_tool(calls[ci].name, calls[ci].arguments)
    /\ tres' = result
    /\ messages' = Append(messages, Turn("tool", <<>>, calls[ci].id))
    /\ Goto("tool_result", TRUE, <<Ev("tool_call_result", calls[ci].id)>>)
    /\ UNCHANGED <<heapVars, stateVars, saved, session_cancelled, active_agent,
                   current_task, agents, ctx, cont, round, calls, ci, term,
                   envVars, schedVars, chatVars, otherVars>>
    /\ UNCHANGED origin

\* TaskManifest.from_dict on the list plan: new Task objects, status pending.
from_dict(plan, first) == [i \in 1..Len(plan) |-> first + i]

SuccessResult(s, m) == [status |-> "success", spec |-> s, manifest |-> m]

\* After the tool_call_result event: the sentinels end the loop with a new
\* result, build_complete ends it with its event, any other tool leads to
\* the next call.
ToolPost ==
    /\ pc = "tool_result"
    /\ tres' = NoResult
    /\ IF tres.kind \in {"spec", "no_spec"}
       THEN /\ agents' = [agents EXCEPT ![active_agent].result =
                             SuccessResult(IF tres.kind = "spec" THEN 1 ELSE 0, 0)]
            /\ Goto("ret", FALSE, <<>>)
            /\ term' = "artifact"
            /\ UNCHANGED <<heapVars, ci, round>>
       ELSE IF tres.kind = "no_plan"
       THEN /\ agents' = [agents EXCEPT ![active_agent].result = SuccessResult(0, 0)]
            /\ Goto("ret", FALSE, <<>>)
            /\ term' = "artifact"
            /\ UNCHANGED <<heapVars, ci, round>>
       ELSE IF tres.kind = "plan"
       THEN /\ tobj' = tobj \o [i \in 1..Len(tres.plan) |->
                                   Task(tres.plan[i].id, tres.plan[i].deps,
                                        tres.plan[i].agent)]
            /\ mobj' = Append(mobj, from_dict(tres.plan, Len(tobj)))
            /\ agents' = [agents EXCEPT ![active_agent].result =
                             SuccessResult(0, Len(mobj) + 1)]
            /\ Goto("ret", FALSE, <<>>)
            /\ term' = "artifact"
            /\ UNCHANGED <<ci, round>>
       ELSE IF calls[ci].name = "build_complete"
       THEN /\ Goto("ret", TRUE, <<Ev("build_complete", 0)>>)
            /\ term' = "build_complete"
            /\ UNCHANGED <<heapVars, agents, ci, round>>
       ELSE /\ ToolTop(active_agent, calls, ci + 1, round)
            /\ UNCHANGED heapVars
    /\ UNCHANGED <<stateVars, saved, session_cancelled, active_agent, current_task,
                   messages, ctx, cont, calls, envVars, schedVars, chatVars, otherVars>>
    /\ UNCHANGED origin

\* ------------------------------------------------------------------ save_state
\* SharedState.to_dict: what the row keeps of the state.
to_dict ==
    [current_phase |-> current_phase,
     spec |-> spec,
     manifest |-> IF manifest = 0 THEN <<>>
                  ELSE [i \in 1..Len(mobj[manifest]) |-> tobj[mobj[manifest][i]]],
     has_manifest |-> manifest # 0,
     errors |-> errors]

\* "await self.save_state()" followed by what the caller does next.
Save(next, evs) ==
    /\ cont' = next
    /\ Goto("save", TRUE, evs)

\* The row is committed and save_state returns.
SaveDone ==
    /\ pc = "save"
    /\ saved' = to_dict
    /\ Goto(cont, FALSE, <<>>)
    /\ cont' = "none"
    /\ UNCHANGED <<heapVars, stateVars, sessionVars, ctx, round, calls, ci, tres, term,
                   envVars, schedVars, chatVars, otherVars>>

\* ------------------------------------------------------------------ research
\* _run_research up to the first event of the clarification agent.
RunResearch ==
    /\ pc = "research"
    /\ AgentRun("clarification", "research", <<>>)
    /\ UNCHANGED <<heapVars, stateVars, saved, session_cancelled, current_task, agents,
                   cont, calls, ci, tres, envVars, schedVars, chatVars, otherVars>>

\* Mutant: planning is announced and the specification is not taken over.
TakeSpec_keeps_spec(result) ==
    /\ spec' = spec
    /\ Goto("research_spec", TRUE, Say)

\* "if result.spec:" take it over and announce planning.
TakeSpec(result) ==
    /\ spec' = result.spec
    /\ Goto("research_spec", TRUE, Say)

\* The clarification agent's loop has returned.
ResearchReturn ==
    /\ pc = "ret"
    /\ ctx = "research"
    /\ active_agent' = "none"
    /\ messages' = <<>>
    /\ LET result == agents[active_agent].result
       IN  IF result.spec # 0
           THEN TakeSpec(result)
           ELSE End(<<>>) /\ UNCHANGED spec
    /\ UNCHANGED <<heapVars, current_phase, manifest, errors, saved, session_cancelled,
                   current_task, agents, loopVars, envVars, schedVars, chatVars, otherVars>>
    /\ UNCHANGED origin

\* self.state.current_phase = Phase.PLANNING, phase_transition, save_state
ResearchToPlanning ==
    /\ pc = "research_spec"
    /\ current_phase' = "planning"
    /\ Save("planning", <<Transition("research", "planning")>>)
    /\ UNCHANGED <<heapVars, spec, manifest, errors, saved, sessionVars, ctx, round,
                   calls, ci, tres, term, envVars, schedVars, chatVars, otherVars>>

\* ------------------------------------------------------------------ planning
\* PlanningAgent.run: without a spec the result is set to error and the run
\* ends on an error event, else the loop is entered.
PlanningRun(c, pre) ==
    /\ active_agent' = "planning"
    /\ ctx' = c
    /\ origin' = c
    /\ IF spec = 0
       THEN /\ agents' = [agents EXCEPT !["planning"].result.status = "error"]
            /\ messages' = <<>>
            /\ round' = 0
            /\ term' = "error"
            /\ Goto("ret", TRUE, pre \o <<Ev("error", 0)>>)
       ELSE /\ agents' = agents
            /\ messages' = FirstMessages
            /\ LoopTop("planning", 0, pre)

\* _run_planning up to the first event of the planning agent.
RunPlanning ==
    /\ pc = "planning"
    /\ PlanningRun("planning", <<>>)
    /\ UNCHANGED <<heapVars, stateVars, saved, session_cancelled, current_task,
                   cont, calls, ci, tres, envVars, schedVars, chatVars, otherVars>>

\* The planning agent's loop has returned: "if result.manifest:" take the
\* manifest over and announce implementation.
PlanningReturn ==
    /\ pc = "ret"
    /\ ctx = "planning"
    /\ active_agent' = "none"
    /\ messages' = <<>>
    /\ LET result == agents[active_agent].result
       IN  IF result.manifest # 0
           THEN /\ manifest' = result.manifest
                /\ Goto("planning_manifest", TRUE, Say)
           ELSE End(<<>>) /\ UNCHANGED manifest
    /\ UNCHANGED <<heapVars, current_phase, spec, errors, saved, session_cancelled,
                   current_task, agents, loopVars, envVars, schedVars, chatVars, otherVars>>
    /\ UNCHANGED origin

\* self.state.current_phase = Phase.IMPLEMENTATION, phase_transition, save_state
PlanningToImplementation ==
    /\ pc = "planning_manifest"
    /\ current_phase' = "implementation"
    /\ Save("implementation", <<Transition("planning", "implementation")>>)
    /\ UNCHANGED <<heapVars, spec, manifest, errors, saved, sessionVars, ctx, round,
                   calls, ci, tres, term, envVars, schedVars, chatVars, otherVars>>

\* ------------------------------------------------------------------ implementation
AgentError(name, task_id) == [agent |-> name, task_id |-> task_id]

\* Top of "while True" of _run_implementation, up to the next event.
\* Mutant: the loop is left as soon as no task is runnable, completed or not.
RunImplementation_breaks_on_none ==
    /\ pc = "implementation"
    /\ IF manifest = 0
       THEN /\ End(<<Ev("error", 0)>>)
            /\ UNCHANGED <<tobj, current_task>>
       ELSE IF session_cancelled
       THEN /\ End(<<Ev("stopped", 0)>>)
            /\ UNCHANGED <<tobj, current_task>>
       ELSE LET task == get_next_task(tobj, mobj[manifest])
            IN  IF task = 0
                THEN /\ Goto("implementation_done", TRUE, Say)
                     /\ UNCHANGED <<tobj, current_task>>
                ELSE /\ current_task' = task
                     /\ tobj' = [tobj EXCEPT ![task].status = "running"]
                     /\ Goto("task_start", TRUE, <<Ev("task_start", tobj[task].id)>>)
    /\ UNCHANGED <<mobj, stateVars, saved, session_cancelled, active_agent, agents,
                   messages, loopVars, envVars, schedVars, chatVars, otherVars>>
    /\ UNCHANGED origin

RunImplementation ==
    /\ pc = "implementation"
    /\ IF manifest = 0
       THEN /\ End(<<Ev("error", 0)>>)
            /\ UNCHANGED <<tobj, current_task>>
       ELSE IF session_cancelled
       THEN /\ End(<<Ev("stopped", 0)>>)
            /\ UNCHANGED <<tobj, current_task>>
       ELSE LET task == get_next_task(tobj, mobj[manifest])
            IN  IF task = 0
                THEN /\ IF all_complete(tobj, mobj[manifest])
                        THEN Goto("implementation_done", TRUE, Say)
                        ELSE End(<<Ev("error", 0)>>)
                     /\ UNCHANGED <<tobj, current_task>>
                ELSE /\ current_task' = task
                     /\ tobj' = [tobj EXCEPT ![task].status = "running"]
                     /\ Goto("task_start", TRUE, <<Ev("task_start", tobj[task].id)>>)
    /\ UNCHANGED <<mobj, stateVars, saved, session_cancelled, active_agent, agents,
                   messages, loopVars, envVars, schedVars, chatVars, otherVars>>
    /\ UNCHANGED origin

\* After the task_start event: dispatch to the agent the task names.
RunTask ==
    /\ pc = "task_start"
    /\ tobj[current_task].agent \in Agents
    /\ AgentRun(tobj[current_task].agent, "implementation", <<>>)
    /\ UNCHANGED <<heapVars, stateVars, saved, session_cancelled, current_task, agents,
                   cont, calls, ci, tres, envVars, schedVars, chatVars, otherVars>>

\* "if task.retries < 3" on the Task object the run was started for.
may_retry(h, task) == h[task].retries < MaxRetries

\* The task agent's loop has returned or stands at its build_complete event.
TaskReturn ==
    /\ pc = "ret"
    /\ ctx = "implementation"
    /\ LET l == mobj[manifest]
           task_id == tobj[current_task].id
           result == agents[active_agent].result
       IN  IF term = "build_complete"
           THEN /\ tobj' = mark_complete(tobj, l, task_id)
                /\ Save("end", <<>>)
                /\ UNCHANGED <<active_agent, messages, errors>>
           ELSE /\ active_agent' = "none"
                /\ messages' = <<>>
                /\ IF result.status = "success"
                   THEN /\ tobj' = mark_complete(tobj, l, task_id)
                        /\ Save("implementation", <<Ev("task_complete", task_id)>>)
                        /\ UNCHANGED errors
                   ELSE LET h1 == mark_failed(tobj, l, task_id, "error")
                        IN  IF may_retry(h1, current_task)
                            THEN /\ tobj' = reset_for_retry(h1, l, task_id)
                                 /\ Goto("implementation", FALSE, <<>>)
                                 /\ UNCHANGED <<errors, cont>>
                            ELSE /\ tobj' = h1
                                 /\ errors' = Append(errors,
                                                 AgentError(active_agent, task_id))
                                 /\ Save("end", <<Ev("error", task_id)>>)
    /\ UNCHANGED <<mobj, current_phase, spec, manifest, saved, session_cancelled,
                   current_task, agents, ctx, round, calls, ci, tres, term,
                   envVars, schedVars, chatVars, otherVars>>
    /\ UNCHANGED origin

\* After the closing message: current_phase = Phase.VALIDATION,
\* phase_transition, save_state.
ImplementationToValidation ==
    /\ pc = "implementation_done"
    /\ current_phase' = "validation"
    /\ Save("validation", <<Transition("implementation", "validation")>>)
    /\ UNCHANGED <<heapVars, spec, manifest, errors, saved, sessionVars, ctx, round,
                   calls, ci, tres, term, envVars, schedVars, chatVars, otherVars>>

\* ------------------------------------------------------------------ validation
\* _run_validation up to the first event of the devops agent.
RunValidation ==
    /\ pc = "validation"
    /\ AgentRun("devops", "validation", <<>>)
    /\ UNCHANGED <<heapVars, stateVars, saved, session_cancelled, current_task, agents,
                   cont, calls, ci, tres, envVars, schedVars, chatVars, otherVars>>

\* The devops agent's loop has returned or stands at its build_complete event.
ValidationReturn ==
    /\ pc = "ret"
    /\ ctx = "validation"
    /\ LET result == agents[active_agent].result
       IN  IF term = "build_complete"
           THEN /\ current_phase' = "complete"
                /\ Save("clear_agent", <<Transition("validation", "complete")>>)
                /\ UNCHANGED <<active_agent, messages, errors>>
           ELSE /\ active_agent' = "none"
                /\ messages' = <<>>
                /\ IF result.status = "success"
                   THEN /\ current_phase' = "complete"
                        /\ Save("end", <<Transition("validation", "complete")>>)
                        /\ UNCHANGED errors
                   ELSE /\ errors' = Append(errors, AgentError("devops", 0))
                        /\ Save("end", <<Ev("error", 0)>>)
                        /\ UNCHANGED current_phase
    /\ UNCHANGED <<heapVars, spec, manifest, saved, session_cancelled, current_task,
                   agents, ctx, round, calls, ci, tres, term, envVars, schedVars, chatVars, otherVars>>
    /\ UNCHANGED origin

\* "self._active_agent = None; return" after the save of the completion.
ClearAgent ==
    /\ pc = "clear_agent"
    /\ active_agent' = "none"
    /\ messages' = <<>>
    /\ End(<<>>)
    /\ UNCHANGED <<heapVars, stateVars, saved, session_cancelled, current_task, agents,
                   loopVars, envVars, schedVars, chatVars, otherVars>>
    /\ UNCHANGED origin

\* ------------------------------------------------------------------ interruptions
\* _classify_interruption returns: the answer of the model decides the flow.
\* A minor edit goes to the agent the words of the message select.
Classify(classification, agent_name) ==
    /\ pc = "classify"
    /\ classification \in {"UNRELATED", "MINOR_EDIT", "ADDITIVE", "BREAKING"}
    /\ agent_name \in {"api", "database"}
    /\ IF classification = "MINOR_EDIT"
       THEN AgentRun(agent_name, "minor_edit", <<>>)
       ELSE /\ agent_name = "api"
            /\ IF classification = "UNRELATED"
               THEN Goto("conversational", TRUE, <<>>)
               ELSE IF classification = "ADDITIVE"
                    THEN Goto("additive", TRUE, Say)
                    ELSE Goto("breaking", TRUE, Say)
            /\ UNCHANGED <<active_agent, ctx, messages, origin, round, term>>
    /\ UNCHANGED <<heapVars, stateVars, saved, session_cancelled, current_task, agents,
                   cont, calls, ci, tres, envVars, schedVars, chatVars, otherVars>>

\* Mutant: the answer is recorded in state.errors.
RespondConversational_records_error ==
    /\ pc = "conversational"
    /\ errors' = Append(errors, AgentError("none", 0))
    /\ End(Say \o <<Ev("waiting_for_user", 0)>>)
    /\ UNCHANGED <<heapVars, current_phase, spec, manifest, saved, sessionVars, loopVars,
                   envVars, schedVars, chatVars, otherVars>>

\* _respond_conversational: chat_completion returns and the answer is sent.
RespondConversational ==
    /\ pc = "conversational"
    /\ End(Say \o <<Ev("waiting_for_user", 0)>>)
    /\ UNCHANGED <<heapVars, stateVars, saved, sessionVars, loopVars, envVars, schedVars, chatVars, otherVars>>

\* The agent of a minor edit has returned.
MinorEditReturn ==
    /\ pc = "ret"
    /\ ctx = "minor_edit"
    /\ active_agent' = "none"
    /\ messages' = <<>>
    /\ End(<<Ev("waiting_for_user", 0)>>)
    /\ UNCHANGED <<heapVars, stateVars, saved, session_cancelled, current_task, agents,
                   loopVars, envVars, schedVars, chatVars, otherVars>>
    /\ UNCHANGED origin

\* _handle_additive after its message: back to planning.
AdditiveToPlanning ==
    /\ pc = "additive"
    /\ current_phase' = "planning"
    /\ Goto("additive_planning", TRUE, <<Transition("implementation", "planning")>>)
    /\ UNCHANGED <<heapVars, spec, manifest, errors, saved, sessionVars, loopVars,
                   envVars, schedVars, chatVars, otherVars>>

\* _handle_additive runs the planning agent.
AdditiveRun ==
    /\ pc = "additive_planning"
    /\ PlanningRun("additive", <<>>)
    /\ UNCHANGED <<heapVars, stateVars, saved, session_cancelled, current_task,
                   cont, calls, ci, tres, envVars, schedVars, chatVars, otherVars>>

\* The planning agent has returned to _handle_additive: the new tasks are
\* appended and implementation goes on, or nothing is new.
AdditiveReturn ==
    /\ pc = "ret"
    /\ ctx = "additive"
    /\ active_agent' = "none"
    /\ messages' = <<>>
    /\ current_phase' = "implementation"
    /\ LET result == agents[active_agent].result
       IN  IF result.manifest # 0 /\ mobj[result.manifest] # <<>>
           THEN /\ IF manifest = 0
                   THEN manifest' = result.manifest /\ UNCHANGED mobj
                   ELSE /\ mobj' = [mobj EXCEPT ![manifest] =
                                       append_tasks(@, mobj[result.manifest])]
                        /\ UNCHANGED manifest
                /\ Save("implementation", <<Transition("planning", "implementation")>>)
           ELSE /\ Save("waiting", <<>>)
                /\ UNCHANGED <<mobj, manifest>>
    /\ UNCHANGED <<tobj, spec, errors, saved, session_cancelled, current_task, agents,
                   ctx, round, calls, ci, tres, term, envVars, schedVars, chatVars, otherVars>>
    /\ UNCHANGED origin

\* "yield AgentEvent(type="waiting_for_user")" after the save.
Waiting ==
    /\ pc = "waiting"
    /\ End(<<Ev("waiting_for_user", 0)>>)
    /\ UNCHANGED <<heapVars, stateVars, saved, sessionVars, loopVars, envVars, schedVars, chatVars, otherVars>>

\* Mutant: phase, spec and manifest are reset before the checkpoint is made.
BreakingReset_before_checkpoint ==
    /\ pc = "breaking"
    /\ current_phase' = "research"
    /\ spec' = 0
    /\ manifest' = 0
    /\ Goto("checkpoint", TRUE, <<>>)
    /\ UNCHANGED <<heapVars, errors, saved, sessionVars, loopVars, envVars, schedVars, chatVars, otherVars>>

\* _handle_breaking after its message: execute_tool is called for the
\* git_commit checkpoint and awaited.
BreakingCheckpoint ==
    /\ pc = "breaking"
    /\ Goto("checkpoint", TRUE, <<>>)
    /\ UNCHANGED <<heapVars, stateVars, saved, sessionVars, loopVars, envVars, schedVars, chatVars, otherVars>>

\* The checkpoint has returned: phase, spec and manifest are reset and the
\* state is saved.
BreakingReset ==
    /\ pc = "checkpoint"
    /\ current_phase' = "research"
    /\ spec' = 0
    /\ manifest' = 0
    /\ Save("research", <<Transition("research", "research")>>)
    /\ UNCHANGED <<heapVars, errors, saved, sessionVars, ctx, round, calls, ci, tres, term,
                   envVars, schedVars, chatVars, otherVars>>

\* ------------------------------------------------------------------ resume
\* The loop resumed by _resume_agent_with_answer has returned or stands at
\* its build_complete event; on a return _handle_agent_completion decides by
\* the phase.
ResumeReturn ==
    /\ pc = "ret"
    /\ ctx = "resume"
    /\ LET result == agents[active_agent].result
           marked == mark_complete(tobj, mobj[manifest], tobj[current_task].id)
       IN  IF term = "build_complete"
           THEN /\ tobj' = IF current_task # 0 /\ manifest # 0 THEN marked ELSE tobj
                /\ Save("end", <<>>)
                /\ UNCHANGED <<active_agent, messages, spec>>
           ELSE /\ active_agent' = "none"
                /\ messages' = <<>>
                /\ IF current_phase = "research" /\ result.spec # 0
                   THEN /\ TakeSpec(result)
                        /\ UNCHANGED <<tobj, cont>>
                   ELSE IF /\ current_phase = "implementation"
                           /\ current_task # 0 /\ manifest # 0
                           /\ result.status = "success"
                   THEN /\ tobj' = marked
                        /\ Save("implementation",
                                <<Ev("task_complete", tobj[current_task].id)>>)
                        /\ UNCHANGED spec
                   ELSE /\ End(<<Ev("waiting_for_user", 0)>>)
                        /\ UNCHANGED <<tobj, spec, cont>>
    /\ UNCHANGED <<mobj, current_phase, manifest, errors, saved, session_cancelled,
                   current_task, agents, ctx, round, calls, ci, tres, term,
                   envVars, schedVars, chatVars, otherVars>>
    /\ UNCHANGED origin

\* ------------------------------------------------------------------ specification
Init ==
    /\ tobj = <<>>
    /\ mobj = <<>>
    /\ manifest = 0
    /\ dpc = "done"
    /\ drained = <<>>
    /\ op = "none"
    /\ ret = 0
    /\ arg = 0
    /\ InitSession
    /\ NoRun
    /\ NoOpen
    /\ NoLlm

Next ==
    \/ ReceiveMessage
    \/ ReceiveStop
    \/ StopElsewhere
    \/ Finish
    \/ HandleUserMessage
    \/ StreamChunk
    \/ StreamError
    \/ StreamErrorResult
    \/ \E names \in UNION {CallLists(a) : a \in Agents}, text \in BOOLEAN :
          StreamEnd(names, text)
    \/ \E name \in ToolNames : \E result \in ToolResults(name) : ToolDone(result)
    \/ ToolPost
    \/ SaveDone
    \/ RunResearch
    \/ ResearchReturn
    \/ ResearchToPlanning
    \/ RunPlanning
    \/ PlanningReturn
    \/ PlanningToImplementation
    \/ RunImplementation
    \/ RunTask
    \/ TaskReturn
    \/ ImplementationToValidation
    \/ RunValidation
    \/ ValidationReturn
    \/ ClearAgent
    \/ \E classification \in {"UNRELATED", "MINOR_EDIT", "ADDITIVE", "BREAKING"},
          agent_name \in {"api", "database"} : Classify(classification, agent_name)
    \/ RespondConversational
    \/ MinorEditReturn
    \/ AdditiveToPlanning
    \/ AdditiveRun
    \/ AdditiveReturn
    \/ Waiting
    \/ BreakingCheckpoint
    \/ BreakingReset
    \/ ResumeReturn

Spec == Init /\ [][Next]_vars

\* ------------------------------------------------------------------ implementation runs
\* The session as PlanningToImplementation and SaveDone leave it: the planner
\* has submitted a manifest of up to ImplTasks tasks with distinct
\* identifiers and acyclic dependencies, and _run_implementation is entered.
InitImpl ==
    /\ \E n \in 1..ImplTasks :
         /\ tobj \in DrainManifests(n)
         /\ mobj = << [i \in 1..n |-> i] >>
    /\ manifest = 1
    /\ current_phase = "implementation"
    /\ spec = 1
    /\ errors = <<>>
    /\ saved = [current_phase |-> "implementation", spec |-> 1, manifest |-> tobj,
                has_manifest |-> TRUE, errors |-> <<>>]
    /\ session_cancelled = FALSE
    /\ active_agent = "none"
    /\ current_task = 0
    /\ agents = [a \in Agents |->
                    IF a = "clarification"
                    THEN [InitAgent EXCEPT !.result = SuccessResult(1, 0)]
                    ELSE IF a = "planning"
                    THEN [InitAgent EXCEPT !.result = SuccessResult(0, 1)]
                    ELSE InitAgent]
    /\ messages = <<>>
    /\ origin = "planning"
    /\ pc = "implementation"
    /\ susp = FALSE
    /\ ctx = "planning"
    /\ cont = "none"
    /\ round = 0
    /\ calls = <<>>
    /\ ci = 0
    /\ tres = NoResult
    /\ term = "artifact"
    /\ nmsg = 0
    /\ nstop = 0
    /\ out = <<>>
    /\ dpc = "done"
    /\ drained = <<>>
    /\ op = "none"
    /\ ret = 0
    /\ arg = 0
    /\ agent_task = [c \in 1..MaxConns |-> "none"]
    /\ frames = [c \in 1..MaxConns |-> 0]
    /\ NoRun
    /\ NoOpen
    /\ NoLlm

SpecImpl == InitImpl /\ [][Next]_vars

\* ------------------------------------------------------------------ claims on task failures
\* The references of the manifest's tasks.
Refs == IF manifest = 0 THEN {} ELSE SeqToSet(mobj[manifest])

\* Task t of the manifest depends on a task that has failed MaxRetries times.
DependsOnExhausted(t) ==
    \E f \in Refs : tobj[f].id \in tobj[t].deps /\ tobj[f].retries >= MaxRetries

TaskOutcome ==
    /\ pc = "ret"
    /\ origin = "implementation"
    /\ ctx \in {"implementation", "resume"}
    /\ term # "build_complete"
    /\ pc' \notin {"ret", "idle", "hum"}

Paused == active_agent # "none" /\ is_waiting_for_user(active_agent)

\* The ask_user events among evs.
Asked(evs) == {k \in 1..Len(evs) : evs[k].type = "ask_user"}

C6_ResumeAppendsToolTurn ==
    [][Paused =>
          LET tc_id == agents[active_agent].pending
          IN  /\ \E k \in 1..Len(messages) :
                    /\ messages[k].role = "assistant"
                    /\ \E c \in 1..Len(messages[k].tool_calls) :
                          messages[k].tool_calls[c] = tc_id
              /\ \A k \in 1..Len(messages) : messages[k].tool_call_id # tc_id
              /\ IF pc = "hum"
                 THEN /\ messages' = messages \o <<Turn("tool", <<>>, tc_id)>>
                      /\ ~Paused'
                      /\ pc' \in {"stream", "ret"}
                 ELSE /\ messages' = messages
                      /\ Paused']_vars

\* The clarification agent was resumed with the answer to its question.
C6_Witness ==
    /\ pc = "stream"
    /\ ctx = "resume"
    /\ round = 0
    /\ Len(messages) = 4
    /\ messages[3].role = "assistant"
    /\ messages[4].role = "tool"
    /\ messages[4].tool_call_id = messages[3].tool_calls[1]

\* ------------------------------------------------------------------ claims on cancellation
\* The stopped event is the last of evs.
EndsStopped(evs) == evs # <<>> /\ evs[Len(evs)].type = "stopped"

\* C8: once cancel() has been raised during a run, the agent's loop starts no
\* further model round and no further tool call, emits a terminal stopped
\* event and returns, wherever it observes the cancellation: at a round
\* boundary, after a streamed fragment, or before a tool call.
C8_CancelEmitsStopped ==
    [][(/\ pc \in {"stream", "tool_result"}
        /\ agents[active_agent].cancelled
        /\ term' = "cancelled")
          => /\ pc' = "ret"
             /\ EndsStopped(out')]_vars

\* ------------------------------------------------------------------ claims on phases
\* C9: _run_planning moves the session from PLANNING to IMPLEMENTATION only
\* when the planning agent produced a manifest with at least one task. (The
\* return of _handle_additive to IMPLEMENTATION is another transition.)
C9_PlanningNeedsTasks ==
    [][(current_phase = "planning" /\ current_phase' = "implementation"
        /\ ctx # "additive")
          => /\ manifest' # 0
             /\ mobj'[manifest'] # <<>>
             /\ agents["planning"].result.manifest # 0
             /\ mobj[agents["planning"].result.manifest] # <<>>]_vars

\* The validation agent has signalled success: its build_complete event, or
\* a run that ended of itself with the result status success.
ValidationSucceeded ==
    /\ active_agent = "devops"
    /\ origin = "validation"
    /\ \/ term = "build_complete"
       \/ term = "done" /\ agents["devops"].result.status = "success"

\* C10: current_phase becomes VALIDATION only from IMPLEMENTATION with every
\* manifest task completed, and COMPLETE only from VALIDATION after the
\* validation agent signalled success.
C10_PhaseOrder ==
    [][/\ (current_phase' = "validation" /\ current_phase # "validation")
             => /\ current_phase = "implementation"
                /\ manifest # 0
                /\ all_complete(tobj, mobj[manifest])
       /\ (current_phase' = "complete" /\ current_phase # "complete")
             => /\ current_phase = "validation"
                /\ ValidationSucceeded]_vars

\* ------------------------------------------------------------------ claims on failures
\* The step is one of the orchestrator, not the end of the run_agent task by
\* a frame of the connection.
OrchestratorStep == pc' \notin {"ret", "idle", "hum"}

\* _run_planning gets no manifest from the planning agent.
PlanningFailed ==
    /\ pc = "ret" /\ ctx = "planning"
    /\ agents["planning"].result.manifest = 0
    /\ OrchestratorStep

\* _run_implementation finds no runnable task while not all are completed.
Deadlocked ==
    /\ pc = "implementation" /\ manifest # 0 /\ ~session_cancelled
    /\ get_next_task(tobj, mobj[manifest]) = 0
    /\ ~all_complete(tobj, mobj[manifest])

\* The run of the current task returns its last permitted error.
RetriesExhausted ==
    /\ pc = "ret" /\ ctx = "implementation" /\ term # "build_complete"
    /\ agents[active_agent].result.status = "error"
    /\ tobj[current_task].retries = MaxRetries - 1
    /\ OrchestratorStep

\* The validation run returns with an error result.
ValidationFailed ==
    /\ pc = "ret" /\ ctx = "validation" /\ term # "build_complete"
    /\ agents[active_agent].result.status = "error"
    /\ OrchestratorStep

\* C11: every failure of a phase (a planning run without manifest, a task
\* out of retries, a scheduling deadlock, a failed validation) appends an
\* entry to state.errors and leaves current_phase unchanged.
C11_FailureRecorded ==
    [][(PlanningFailed \/ Deadlocked \/ RetriesExhausted \/ ValidationFailed)
          => /\ Len(errors') = Len(errors) + 1
             /\ SubSeq(errors', 1, Len(errors)) = errors
             /\ current_phase' = current_phase]_vars

\* C21: when get_next_task() returns None while all_complete() is false, the
\* implementation run reports the fault with an error event and halts with
\* current_phase still implementation; no task is marked completed by that
\* step nor in the remainder of the run.
C21_DeadlockHalts ==
    [][/\ (Deadlocked /\ OrchestratorStep /\ pc' # pc)
          => /\ pc' = "end"
             /\ out' = <<Ev("error", 0)>>
             /\ current_phase = "implementation"
             /\ current_phase' = "implementation"
             /\ tobj' = tobj
       /\ pc = "end" => tobj' = tobj]_vars

\* The run has halted on a deadlock of the manifest.
C21_Witness ==
    /\ pc = "end" /\ out = <<Ev("error", 0)>>
    /\ current_phase = "implementation"
    /\ manifest # 0
    /\ get_next_task(tobj, mobj[manifest]) = 0
    /\ ~all_complete(tobj, mobj[manifest])

\* C34: in every state of the session a phase of implementation, validation
\* or complete comes with a manifest and a phase other than research with a
\* specification; an interruption is classified only in those three phases
\* and only while no specialist waits for an answer of the user.
C34_PhaseHasArtifacts ==
    /\ current_phase \in InterruptPhases => manifest # 0
    /\ current_phase # "research" => spec # 0
    /\ pc = "classify" =>
          /\ current_phase \in InterruptPhases
          /\ \A a \in Agents : ~is_waiting_for_user(a)

\* An interruption is being classified in the complete phase.
C34_Witness ==
    /\ pc = "classify"
    /\ current_phase = "complete"
    /\ manifest # 0 /\ spec # 0

\* A task is completed or failed by the step; a failure re-admitted for retry
\* shows in the retries of the task.
TaskSettled ==
    \E t \in DOMAIN tobj :
        \/ tobj'[t].retries # tobj[t].retries
        \/ /\ tobj'[t].status # tobj[t].status
           /\ tobj'[t].status \in {"completed", "failed"}

\* C12: after every phase transition, task completion and task failure
\* (a failure re-admitted for retry included) the orchestrator saves the
\* state before it starts the next specialist or returns: the step that
\* makes the change ends at the call of save_state.
C12_SavedAfterChange ==
    [][(current_phase' # current_phase \/ TaskSettled) => pc' = "save"]_vars

\* C14: a task with status completed is never started again and never
\* leaves completed, whatever messages, retries and re-planning follow (the
\* tasks of a manifest discarded by a BREAKING change stay as they are).
C14_CompletedStays ==
    [][\A t \in DOMAIN tobj :
          tobj[t].status = "completed" => tobj'[t].status = "completed"]_vars

\* ------------------------------------------------------------------ claims on interruptions
\* _handle_additive takes the result of the planning agent.
AdditiveReturns == pc = "ret" /\ ctx = "additive" /\ OrchestratorStep

\* C17: handling an ADDITIVE message leaves the existing tasks of the
\* manifest in place, in order and with their fields, adds after them only
\* tasks that were not in the manifest, and sets the phase back to
\* IMPLEMENTATION.
C17_AdditiveAppends ==
    [][(AdditiveReturns /\ manifest # 0) =>
          LET old == mobj[manifest]
              new == mobj'[manifest]
          IN  /\ manifest' = manifest
              /\ \A t \in DOMAIN tobj : tobj'[t] = tobj[t]
              /\ Len(new) >= Len(old)
              /\ SubSeq(new, 1, Len(old)) = old
              /\ \A k \in (Len(old) + 1)..Len(new) : new[k] \notin SeqToSet(old)
              /\ current_phase' = "implementation"]_vars

\* C35: the result get_result() returns after a run describes that run
\* only: when the loop has returned without producing a specification, a
\* manifest or an error in this run, the result carries none of an earlier
\* run. Stated for the planning agent, whose run() is PlanningAgent.run.
C35_ResultIsOfThisRun ==
    (pc = "ret" /\ active_agent = "planning" /\ term \in {"done", "cancelled"})
        => agents[active_agent].result = SuccessResult(0, 0)

C37_CancelIsNotSticky ==
    (pc = "ret" /\ term = "cancelled" /\ active_agent = "planning") => session_cancelled

\* C38: when the handling of a user message returns and no specialist waits
\* for an answer of the user, no task of the manifest has status running.
C38_NoTaskLeftRunning ==
    [][(pc = "end" /\ pc' = "idle" /\ \A a \in Agents : ~is_waiting_for_user(a))
          => \A t \in DOMAIN tobj' : tobj'[t].status # "running"]_vars

\* C39: every phase_transition event reports the transition that was made:
\* its from is current_phase before the step that yields it and its to is
\* current_phase after it.
C39_TransitionEventsAreActual ==
    [][pc' # pc =>
          \A k \in 1..Len(out') :
             out'[k].type = "phase_transition" =>
                /\ out'[k].from = current_phase
                /\ out'[k].to = current_phase']_vars

C20_UnrelatedChangesNothing ==
    [][((pc = "classify" /\ pc' = "conversational")
          \/ (pc = "conversational" /\ pc' # pc /\ OrchestratorStep)) =>
            /\ <<current_phase, spec, manifest, errors>>' = <<current_phase, spec, manifest, errors>>
            /\ <<tobj, mobj, saved>>' = <<tobj, mobj, saved>>
            /\ <<active_agent, agents, messages, current_task>>'
                  = <<active_agent, agents, messages, current_task>>
            /\ pc' \in {"conversational", "end"}
            /\ pc' = "end" => out' = Say \o <<Ev("waiting_for_user", 0)>>]_vars

\* The conversational answer has been sent while a task of the manifest was
\* interrupted.
C20_Witness ==
    /\ pc = "end"
    /\ out = Say \o <<Ev("waiting_for_user", 0)>>
    /\ current_phase = "implementation"
    /\ \E t \in DOMAIN tobj : tobj[t].status = "running"

\* ------------------------------------------------------------------ connections
\* chat_ws for several connections to one project: they share the session of
\* _sessions[project_id], and each keeps its own agent_task. A run is
\* followed from its creation to its end, not through its steps.
Conns == 1..MaxConns

\* "agent_task and not agent_task.done()"
TaskActive(c) == agent_task[c] \in {"created", "running"}

\* Connection c receives a user message: cancel its own run if one is
\* active, then create the run_agent task for the message.
ChatMessage(c) ==
    /\ agent_task[c] # "closed"
    /\ frames[c] < MaxFrames
    /\ frames' = [frames EXCEPT ![c] = @ + 1]
    /\ session_cancelled' = (TaskActive(c) \/ session_cancelled)
    /\ agents' = IF TaskActive(c) THEN cancel(agents) ELSE agents
    /\ agent_task' = [agent_task EXCEPT ![c] = "created"]
    /\ UNCHANGED <<heapVars, stateVars, saved, active_agent, current_task,
                   messages, origin, pc, susp, loopVars, envVars, out, schedVars, otherVars>>

\* The run_agent task of c starts: handle_user_message sets _cancelled to
\* False and goes on to its first await.
ChatRunStart(c) ==
    /\ agent_task[c] = "created"
    /\ agent_task' = [agent_task EXCEPT ![c] = "running"]
    /\ session_cancelled' = FALSE
    /\ UNCHANGED <<heapVars, stateVars, saved, active_agent, current_task, agents,
                   messages, origin, pc, susp, loopVars, envVars, out, schedVars, frames, otherVars>>

\* The run of c ends: its generator is exhausted or it sent ask_user.
ChatRunEnd(c) ==
    /\ agent_task[c] = "running"
    /\ agent_task' = [agent_task EXCEPT ![c] = "done"]
    /\ UNCHANGED <<heapVars, stateVars, saved, sessionVars, pc, susp, loopVars, envVars,
                   out, schedVars, frames, otherVars>>

\* Connection c receives a stop request: session.cancel(), and its own run
\* is cancelled if one is active.
ChatStop(c) ==
    /\ agent_task[c] # "closed"
    /\ frames[c] < MaxFrames
    /\ frames' = [frames EXCEPT ![c] = @ + 1]
    /\ session_cancelled' = TRUE
    /\ agents' = cancel(agents)
    /\ agent_task' = [agent_task EXCEPT ![c] = IF TaskActive(c) THEN "done" ELSE @]
    /\ UNCHANGED <<heapVars, stateVars, saved, active_agent, current_task,
                   messages, origin, pc, susp, loopVars, envVars, out, schedVars, otherVars>>

\* WebSocketDisconnect on c: its own run is cancelled if one is active.
ChatDisconnect(c) ==
    /\ agent_task[c] # "closed"
    /\ session_cancelled' = (TaskActive(c) \/ session_cancelled)
    /\ agents' = IF TaskActive(c) THEN cancel(agents) ELSE agents
    /\ agent_task' = [agent_task EXCEPT ![c] = "closed"]
    /\ UNCHANGED <<heapVars, stateVars, saved, active_agent, current_task,
                   messages, origin, pc, susp, loopVars, envVars, out, schedVars, frames, otherVars>>

\* Every connection is accepted and has got the session of the project.
InitChat ==
    /\ tobj = <<>>
    /\ mobj = <<>>
    /\ manifest = 0
    /\ dpc = "done"
    /\ drained = <<>>
    /\ op = "none"
    /\ ret = 0
    /\ arg = 0
    /\ InitSession
    /\ NoRun
    /\ NoOpen
    /\ NoLlm

NextChat ==
    \E c \in Conns :
        \/ ChatMessage(c)
        \/ ChatRunStart(c)
        \/ ChatRunEnd(c)
        \/ ChatStop(c)
        \/ ChatDisconnect(c)

SpecChat == InitChat /\ [][NextChat]_vars

\* The connections whose handle_user_message run is in flight.
InFlight == {c \in Conns : agent_task[c] = "running"}

\* C7: within one session at most one handle_user_message run is in flight
\* at any time, for every interleaving of message arrivals on the
\* connections that reach the session.
C7_SingleFlight == Cardinality(InFlight) <= 1

\* ------------------------------------------------------------------ serialization
\* A value that may be None is <<>> for None and <<v>> for v. json.dumps
\* gives a text, which is never empty and so always truthy: the text of v is
\* <<v>>, and a NULL column of the row is None.
None == <<>>

json_dumps(v) == <<v>>

json_loads(text) == text[1]

\* dataclasses.asdict: the dictionary of the fields of o.
asdict(o) == [k \in DOMAIN o |-> o[k]]

\* data.get(k, default)
get(data, k, default) == IF k \in DOMAIN data THEN data[k] ELSE default

\* ProjectSpec(entities=..., auth_required=...): an entity is a name with
\* the list of its FieldSpec.
ProjectSpec(entities, auth_required) ==
    [entities |-> entities, relationships |-> <<>>, endpoints |-> "crud_default",
     database |-> "postgresql", auth_required |-> auth_required,
     extra_requirements |-> <<>>]

ProjectSpec_to_dict(s) ==
    [entities |-> [i \in 1..Len(s.entities) |->
                      [name |-> s.entities[i].name,
                       fields |-> [j \in 1..Len(s.entities[i].fields) |->
                                      asdict(s.entities[i].fields[j])]]],
     relationships |-> [i \in 1..Len(s.relationships) |-> asdict(s.relationships[i])],
     endpoints |-> s.endpoints,
     database |-> s.database,
     auth_required |-> s.auth_required,
     extra_requirements |-> s.extra_requirements]

ProjectSpec_from_dict(data) ==
    LET e_datas == get(data, "entities", <<>>)
        entities == [i \in 1..Len(e_datas) |->
                        LET fs == get(e_datas[i], "fields", <<>>)
                        IN  [name |-> e_datas[i].name,
                             fields |-> [j \in 1..Len(fs) |-> asdict(fs[j])]]]
        rs == get(data, "relationships", <<>>)
    IN  [entities |-> entities,
         relationships |-> [i \in 1..Len(rs) |-> asdict(rs[i])],
         endpoints |-> get(data, "endpoints", "crud_default"),
         database |-> get(data, "database", "postgresql"),
         auth_required |-> get(data, "auth_required", FALSE),
         extra_requirements |-> get(data, "extra_requirements", <<>>)]

\* Task.to_dict
Task_to_dict(t) == asdict(t)

Task_from_dict_as_new(data) ==
    Task(data.id, get(data, "deps", {}), data.agent)

\* Task.from_dict: id and agent are required keys (as type and description,
\* which Task leaves out here), the other fields have defaults.
Task_from_dict(data) ==
    [Task(data.id, get(data, "deps", {}), data.agent)
        EXCEPT !.status = get(data, "status", "pending"),
               !.retries = get(data, "retries", 0),
               !.error = get(data, "error", "none")]

\* TaskManifest.to_dict and from_dict, on the list of the tasks themselves.
TaskManifest_to_dict(tasks) ==
    [tasks |-> [i \in 1..Len(tasks) |-> Task_to_dict(tasks[i])]]

TaskManifest_from_dict(data) ==
    [i \in 1..Len(data.tasks) |-> Task_from_dict(data.tasks[i])]

AgentError_to_dict(e) == asdict(e)

\* cls(**data)
AgentError_from_dict(data) == [k \in DOMAIN data |-> data[k]]

Phases == {"research", "planning", "implementation", "validation", "complete"}

\* Phase(value): the member of the enumeration with that value.
Phase(value) == CHOOSE p \in Phases : p = value

\* SharedState(project_id): the defaults of the dataclass.
SharedState(project_id) ==
    [project_id |-> project_id, current_phase |-> "research", spec |-> None,
     manifest |-> None, files_created |-> <<>>, errors |-> <<>>,
     user_conversation |-> <<>>]

\* SharedState.to_dict. A ProjectSpec and a TaskManifest are truthy whatever
\* they hold, so the tests are tests for None.
SharedState_to_dict(s) ==
    [project_id |-> s.project_id,
     current_phase |-> s.current_phase,
     spec_json |-> IF s.spec # None
                   THEN json_dumps(ProjectSpec_to_dict(s.spec[1])) ELSE None,
     manifest_json |-> IF s.manifest # None
                       THEN json_dumps(TaskManifest_to_dict(s.manifest[1])) ELSE None,
     files_created |-> json_dumps(s.files_created),
     errors |-> json_dumps([i \in 1..Len(s.errors) |-> AgentError_to_dict(s.errors[i])]),
     updated_at |-> "now"]

\* SharedState.from_dict. user_conversation is not in the dictionary and
\* keeps its default.
SharedState_from_dict(data) ==
    LET state == SharedState(data.project_id)
        es == IF get(data, "errors", None) # None THEN json_loads(data.errors) ELSE <<>>
    IN  [state EXCEPT
           !.current_phase = Phase(get(data, "current_phase", "research")),
           !.spec = IF get(data, "spec_json", None) # None
                    THEN <<ProjectSpec_from_dict(json_loads(data.spec_json))>>
                    ELSE state.spec,
           !.manifest = IF get(data, "manifest_json", None) # None
                        THEN <<TaskManifest_from_dict(json_loads(data.manifest_json))>>
                        ELSE state.manifest,
           !.files_created = IF get(data, "files_created", None) # None
                             THEN json_loads(data.files_created)
                             ELSE state.files_created,
           !.errors = IF get(data, "errors", None) # None
                      THEN [i \in 1..Len(es) |-> AgentError_from_dict(es[i])]
                      ELSE state.errors]

\* ------------------------------------------------------------------ round trip
RoundTasks == 2

\* The states the round trip is taken on. A task has the status, retries and
\* error the orchestrator can leave it with; files_created, errors and
\* user_conversation are all empty or all filled.
SharedStates ==
    LET TaskProgress ==
            {<<"pending", 0, "none">>, <<"running", 0, "none">>,
             <<"completed", 0, "none">>, <<"failed", 1, "boom">>}
        RoundTaskSet ==
            {[Task(id, deps, "api") EXCEPT !.status = p[1], !.retries = p[2],
                                           !.error = p[3]] :
                id \in 1..RoundTasks, deps \in {{}, {1}}, p \in TaskProgress}
        RoundManifests ==
            {None} \cup {<<tasks>> : tasks \in
                            UNION {[1..n -> RoundTaskSet] : n \in 0..RoundTasks}}
        Book == [name |-> "Book",
                 fields |-> <<[name |-> "title", type |-> "str", nullable |-> FALSE,
                               unique |-> FALSE, default |-> "none"]>>]
        RoundSpecs == {None, <<ProjectSpec(<<>>, FALSE)>>, <<ProjectSpec(<<Book>>, TRUE)>>}
        RoundLists ==
            {<< <<>>, <<>>, <<>> >>,
             << <<"models.py">>, <<AgentError("api", 1)>>, <<"hello">> >>}
    IN  {[SharedState("p1") EXCEPT !.current_phase = ph, !.spec = sp, !.manifest = m,
                                   !.files_created = l[1], !.errors = l[2],
                                   !.user_conversation = l[3]] :
            ph \in Phases, sp \in RoundSpecs, m \in RoundManifests, l \in RoundLists}

InitRound ==
    /\ tobj = <<>>
    /\ mobj = <<>>
    /\ manifest = 0
    /\ dpc = "done"
    /\ drained = <<>>
    /\ op = "none"
    /\ ret = 0
    /\ arg \in SharedStates
    /\ InitSession
    /\ NoRun
    /\ NoOpen
    /\ NoLlm

\* data = s.to_dict()
RoundToDict ==
    /\ op = "none"
    /\ op' = "to_dict"
    /\ ret' = SharedState_to_dict(arg)
    /\ UNCHANGED <<tobj, mobj, manifest, dpc, drained, arg, orchVars, chatVars, otherVars>>

\* SharedState.from_dict(data)
RoundFromDict ==
    /\ op = "to_dict"
    /\ op' = "from_dict"
    /\ ret' = SharedState_from_dict(ret)
    /\ UNCHANGED <<tobj, mobj, manifest, dpc, drained, arg, orchVars, chatVars, otherVars>>

NextRound == RoundToDict \/ RoundFromDict

SpecRound == InitRound /\ [][NextRound]_vars

CallTasks == 2
CallRetries == 1

\* Identifiers an argument can name: those of the manifest and one more.
CallIds == 1..(CallTasks + 1)

InitCalls ==
    /\ \E n \in 1..CallTasks :
         /\ tobj \in {[i \in 1..n |-> [Task(i, ds[i], "api") EXCEPT !.status = st[i]]] :
                        ds \in [1..n -> {{}, {1}}],
                        st \in [1..n -> {"pending", "running", "completed"}]}
         /\ mobj = << [i \in 1..n |-> i] >>
    /\ manifest = 1
    /\ dpc = "done"
    /\ drained = <<>>
    /\ op = "none"
    /\ ret = 0
    /\ arg = 0
    /\ InitSession
    /\ NoRun
    /\ NoOpen
    /\ NoLlm

CallGetNext ==
    /\ op' = "get_next_task"
    /\ arg' = 0
    /\ ret' = get_next_task(tobj, mobj[manifest])
    /\ UNCHANGED <<tobj, mobj, manifest, dpc, drained, orchVars, chatVars, otherVars>>

CallMarkFailed ==
    /\ \A t \in DOMAIN tobj : tobj[t].retries < CallRetries
    /\ \E task_id \in CallIds :
         /\ op' = "mark_failed"
         /\ arg' = task_id
         /\ tobj' = mark_failed(tobj, mobj[manifest], task_id, "boom")
    /\ ret' = 0
    /\ UNCHANGED <<mobj, manifest, dpc, drained, orchVars, chatVars, otherVars>>

CallResetForRetry ==
    /\ \E task_id \in CallIds :
         /\ op' = "reset_for_retry"
         /\ arg' = task_id
         /\ tobj' = reset_for_retry(tobj, mobj[manifest], task_id)
    /\ ret' = 0
    /\ UNCHANGED <<mobj, manifest, dpc, drained, orchVars, chatVars, otherVars>>

\* append_tasks([Task(id=task_id, ...)]) with a task just built.
CallAppend ==
    /\ Len(mobj[manifest]) <= CallTasks
    /\ \E task_id \in CallIds :
         LET r == Len(tobj) + 1
         IN  /\ op' = "append_tasks"
             /\ arg' = task_id
             /\ tobj' = Append(tobj, Task(task_id, {}, "api"))
             /\ mobj' = [mobj EXCEPT ![manifest] = append_tasks(@, <<r>>)]
    /\ ret' = 0
    /\ UNCHANGED <<manifest, dpc, drained, orchVars, chatVars, otherVars>>

NextCalls == CallGetNext \/ CallMarkFailed \/ CallResetForRetry \/ CallAppend

SpecCalls == InitCalls /\ [][NextCalls]_vars

\* No two tasks of the list l share an identifier.
UniqueIds(h, l) == \A i, j \in 1..Len(l) : h[l[i]].id = h[l[j]].id => i = j

\* C15: no two tasks of the manifest share an identifier; append_tasks does
\* not add a task whose id an existing task has.
C15_UniqueIds == UniqueIds(tobj, mobj[manifest])

\* The task a call with identifier arg' acts on: the first of the list with
\* that id, 0 when there is none.
Target == find_task(tobj, mobj[manifest], arg')

OthersUnchanged ==
    /\ mobj' = mobj
    /\ DOMAIN tobj' = DOMAIN tobj
    /\ \A t \in DOMAIN tobj : t # Target => tobj'[t] = tobj[t]

\* C16: mark_failed(id, error) sets the task's status to failed, adds one to
\* its retries and records the error; reset_for_retry(id) sets its status to
\* pending, after which get_next_task() returns it when its dependencies are
\* completed and no earlier task is runnable; neither call changes another
\* task.
C16_FailAndRetry ==
    [][/\ op' = "mark_failed" =>
            /\ OthersUnchanged
            /\ Target # 0 =>
                  tobj'[Target] = [tobj[Target] EXCEPT !.status = "failed",
                                                       !.retries = @ + 1,
                                                       !.error = "boom"]
       /\ op' = "reset_for_retry" =>
            /\ OthersUnchanged
            /\ Target # 0 =>
                  tobj'[Target] = [tobj[Target] EXCEPT !.status = "pending"]
       /\ (op = "reset_for_retry" /\ op' = "get_next_task") =>
            LET r == find_task(tobj, mobj[manifest], arg)
                done == completed_ids(tobj, mobj[manifest])
            IN  (/\ r # 0
                 /\ tobj[r].deps \subseteq done
                 /\ \A i \in 1..Len(mobj[manifest]) :
                       LET t == mobj[manifest][i]
                       IN  (t # r /\ tobj[t].status = "pending"
                            /\ tobj[t].deps \subseteq done)
                              => \E j \in 1..(i - 1) : mobj[manifest][j] = r)
                    => ret' = r]_vars

\* A task that failed and was reset is returned again by get_next_task while
\* another task of the manifest kept its status.
C16_Witness ==
    /\ op = "get_next_task"
    /\ ret # 0
    /\ tobj[ret].retries = 1 /\ tobj[ret].error = "boom"
    /\ \E t \in DOMAIN tobj : t # ret /\ tobj[t].status = "running" /\ tobj[t].retries = 0

\* ------------------------------------------------------------------ tool-call stream
\* The reconstruction of the tool calls of a round from the deltas of the
\* model stream, as _run_react_loop and the run of an implementation agent
\* both do it. A text is a sequence of characters, <<>> the empty text; a
\* delta is [index, id, name, arguments] with 0 for an absent id and <<>>
\* for an absent name or arguments.
StreamCalls == 2     \* tool calls of the round
StreamText == 2      \* characters of a name or of an argument text

\* Mutant: a fragment of the arguments replaces what was accumulated.
accumulate_replaces_arguments(acc, tc) ==
    LET a0 == IF tc.index \in DOMAIN acc THEN acc
              ELSE [k \in DOMAIN acc \cup {tc.index} |->
                       IF k = tc.index
                       THEN [id |-> tc.id, name |-> <<>>, arguments |-> <<>>]
                       ELSE acc[k]]
        a1 == IF tc.id # 0 THEN [a0 EXCEPT ![tc.index].id = tc.id] ELSE a0
        a2 == IF tc.name # <<>> THEN [a1 EXCEPT ![tc.index].name = @ \o tc.name] ELSE a1
    IN  IF tc.arguments # <<>>
        THEN [a2 EXCEPT ![tc.index].arguments = tc.arguments] ELSE a2

\* "for tc in delta.tool_calls:" for one tc: the entry of tc.index is made
\* when it is new, the id taken when present, name and arguments appended.
accumulate(acc, tc) ==
    LET a0 == IF tc.index \in DOMAIN acc THEN acc
              ELSE [k \in DOMAIN acc \cup {tc.index} |->
                       IF k = tc.index
                       THEN [id |-> tc.id, name |-> <<>>, arguments |-> <<>>]
                       ELSE acc[k]]
        a1 == IF tc.id # 0 THEN [a0 EXCEPT ![tc.index].id = tc.id] ELSE a0
        a2 == IF tc.name # <<>> THEN [a1 EXCEPT ![tc.index].name = @ \o tc.name] ELSE a1
    IN  IF tc.arguments # <<>>
        THEN [a2 EXCEPT ![tc.index].arguments = @ \o tc.arguments] ELSE a2

\* sorted(keys)
RECURSIVE sorted(_)
sorted(keys) ==
    IF keys = {} THEN <<>>
    ELSE LET m == CHOOSE k \in keys : \A j \in keys : k <= j
         IN  <<m>> \o sorted(keys \ {m})

\* tool_calls_list = [tool_calls_acc[i] for i in sorted(tool_calls_acc.keys())]
tool_calls_list(acc) ==
    LET keys == sorted(DOMAIN acc) IN [i \in 1..Len(keys) |-> acc[keys[i]]]

\* The logical tool calls of a round: call i has index i - 1, the id i, a
\* name of one or of StreamText characters and an argument text that is
\* empty or has StreamText characters; the characters of the round are all
\* different.
LogicalCalls ==
    UNION {{[i \in 1..n |->
                [name |-> [k \in 1..nl[i] |-> <<i, "n", k>>],
                 arguments |-> [k \in 1..al[i] |-> <<i, "a", k>>]]]
            : nl \in [1..n -> {1, StreamText}], al \in [1..n -> {0, StreamText}]}
           : n \in 1..StreamCalls}

InitStream ==
    /\ tobj = <<>>
    /\ mobj = <<>>
    /\ manifest = 0
    /\ dpc = "done"
    /\ drained = <<>>
    /\ op = "none"
    /\ ret = 0
    /\ arg \in LogicalCalls
    /\ InitSession
    /\ NoRun
    /\ NoOpen
    /\ NoLlm

\* chat_completion_stream is opened: the model is to send the calls of arg.
StreamOpen ==
    /\ op = "none"
    /\ op' = "stream"
    /\ stream' = arg
    /\ UNCHANGED <<tobj, mobj, manifest, orchVars, dpc, drained, ret, arg, chatVars,
                   files_modified, verify_attempts, tool_calls_acc, openVars, llmVars>>

\* A chunk brings a delta for the call of index i - 1: the next n characters
\* of its name and the next a characters of its arguments; the id comes with
\* the first delta of the call and may be repeated later.
StreamDelta(i, n, a, id) ==
    /\ op = "stream"
    /\ i \in 1..Len(stream)
    /\ n \in 0..Len(stream[i].name)
    /\ a \in 0..Len(stream[i].arguments)
    /\ id \in {0, i}
    /\ (i - 1) \notin DOMAIN tool_calls_acc => id = i
    /\ (i - 1) \in DOMAIN tool_calls_acc => n + a > 0
    /\ tool_calls_acc' = accumulate(tool_calls_acc,
           [index |-> i - 1, id |-> id,
            name |-> SubSeq(stream[i].name, 1, n),
            arguments |-> SubSeq(stream[i].arguments, 1, a)])
    /\ stream' = [stream EXCEPT
           ![i].name = SubSeq(@, n + 1, Len(@)),
           ![i].arguments = SubSeq(@, a + 1, Len(@))]
    /\ UNCHANGED <<tobj, mobj, manifest, orchVars, schedVars, chatVars,
                   files_modified, verify_attempts, openVars, llmVars>>

\* The stream ends once every call is delivered: the calls are finalized.
StreamClose ==
    /\ op = "stream"
    /\ \A i \in 1..Len(stream) :
          /\ (i - 1) \in DOMAIN tool_calls_acc
          /\ stream[i].name = <<>> /\ stream[i].arguments = <<>>
    /\ op' = "done"
    /\ calls' = tool_calls_list(tool_calls_acc)
    /\ UNCHANGED <<heapVars, stateVars, saved, sessionVars, pc, susp, ctx, cont, round,
                   ci, tres, term, envVars, out, dpc, drained, ret, arg, chatVars,
                   otherVars>>

NextStream ==
    \/ StreamOpen
    \/ \E i \in 1..StreamCalls, n, a \in 0..StreamText, id \in 0..StreamCalls :
          StreamDelta(i, n, a, id)
    \/ StreamClose

SpecStream == InitStream /\ [][NextStream]_vars

\* C22: the reconstruction is fragmentation-invariant: however the name and
\* the argument text of each call are split into ordered fragments keyed by
\* the index of the call, the finalized list holds the calls in ascending
\* index order, each with its whole name and its whole arguments.
C22_FragmentationInvariant ==
    op = "done" =>
        /\ Len(calls) = Len(arg)
        /\ \A i \in 1..Len(arg) :
              /\ calls[i].id = i
              /\ calls[i].name = arg[i].name
              /\ calls[i].arguments = arg[i].arguments

\* Two calls are finalized whose names and arguments have two characters
\* each, however they were split and interleaved.
C22_Witness ==
    /\ op = "done"
    /\ Len(calls) = 2
    /\ \A i \in 1..2 : Len(arg[i].name) = 2 /\ Len(arg[i].arguments) = 2

\* ------------------------------------------------------------------ the loop alone
\* _run_react_loop of the planning agent from its first model call on, with
\* a model that may name any tool and send argument texts that do not parse.
\* The run is followed up to its return.
InitLoop ==
    /\ tobj = <<>>
    /\ mobj = <<>>
    /\ manifest = 0
    /\ current_phase = "planning"
    /\ spec = 1
    /\ errors = <<>>
    /\ saved = [current_phase |-> "planning", spec |-> 1, manifest |-> <<>>,
                has_manifest |-> FALSE, errors |-> <<>>]
    /\ session_cancelled = FALSE
    /\ active_agent = "planning"
    /\ current_task = 0
    /\ agents = [a \in Agents |->
                    IF a = "clarification"
                    THEN [InitAgent EXCEPT !.result = SuccessResult(1, 0)]
                    ELSE InitAgent]
    /\ messages = FirstMessages
    /\ origin = "planning"
    /\ pc = "stream"
    /\ susp = TRUE
    /\ ctx = "planning"
    /\ cont = "none"
    /\ round = 0
    /\ calls = <<>>
    /\ ci = 0
    /\ tres = NoResult
    /\ term = "none"
    /\ nmsg = 1
    /\ nstop = 0
    /\ out = <<>>
    /\ dpc = "done"
    /\ drained = <<>>
    /\ op = "none"
    /\ ret = 0
    /\ arg = 0
    /\ agent_task = [c \in 1..MaxConns |-> IF c = 1 THEN "running" ELSE "none"]
    /\ frames = [c \in 1..MaxConns |-> IF c = 1 THEN 1 ELSE 0]
    /\ NoRun
    /\ NoOpen
    /\ NoLlm

NextLoop ==
    \/ StreamChunk
    \/ StreamError
    \/ StreamErrorResult
    \/ \E n \in 0..MaxCalls : \E names \in [1..n -> ToolNames] :
          \E raw \in [1..n -> {"json", "malformed"}] : \E text \in BOOLEAN :
             ModelTurn(names, raw, text)
    \/ \E name \in ToolNames : \E result \in ToolResults(name) : ToolDone(result)
    \/ ToolPost

SpecLoop == InitLoop /\ [][NextLoop]_vars

\* The loop has done max_tool_rounds rounds without a terminal outcome.
Exhausted == pc = "ret" /\ term = "exhausted"

\* C23: a specialist run that performs max_tool_rounds rounds without a
\* terminal outcome ends as an error: an error event is surfaced and the
\* result of the invocation is not success.
C23_ExhaustionIsError ==
    Exhausted =>
        /\ \E k \in 1..Len(out) : out[k].type = "error"
        /\ agents[active_agent].result.status # "success"

\* A call is at the tool boundary: execute_tool is awaited for calls[ci].
AtToolBoundary == pc = "exec"

\* C29: a tool call whose argument text is malformed does not invoke the
\* tool and does not abort the run: a tool-error turn for its id is appended
\* and the run goes on.
C29_MalformedNotInvoked ==
    AtToolBoundary => calls[ci].arguments # "malformed"

\* C30: a tool call whose name is not in the allow-list (tool_names) of the
\* specialist is never passed to execute_tool.
C30_DisallowedNotInvoked ==
    AtToolBoundary => calls[ci].name \in tool_names(active_agent)

\* The result execute_tool returned carries the prefix of a finalized
\* artifact (__FINALIZE_SPEC__ or __SUBMIT_PLAN__).
Sentinel(result) == result.kind \in {"spec", "no_spec", "plan", "no_plan"}

\* C31: when execute_tool returns a sentinel the invocation returns at once
\* with a result that carries the parsed specification or manifest (none
\* when the payload does not parse), no later call of the round is
\* executed, and the sentinel is not recorded: no tool turn is appended and
\* no tool_call_result event is yielded for it.
C31_SentinelBypassesBookkeeping ==
    [][/\ (pc = "exec" /\ pc' # pc /\ Sentinel(tres'))
          => /\ messages' = messages
             /\ \A k \in 1..Len(out') : out'[k].type # "tool_call_result"
       /\ (pc = "tool_result" /\ pc' # pc /\ Sentinel(tres))
          => /\ pc' = "ret"
             /\ agents'[active_agent].result.status = "success"
             /\ (tres.kind = "spec") = (agents'[active_agent].result.spec # 0)
             /\ (tres.kind = "plan") = (agents'[active_agent].result.manifest # 0)]_vars

\* ------------------------------------------------------------------ a round and its stream
\* _run_react_loop with the tool calls of the round followed while they are
\* accumulated: tool_calls_acc is the local of the round.

\* A chunk brings the tool call of index i - 1 whole: its id, its name and
\* its argument text raw.
TurnDelta(i, name, raw) ==
    /\ pc = "stream"
    /\ (i - 1) \notin DOMAIN tool_calls_acc
    /\ tool_calls_acc' = accumulate(tool_calls_acc,
           [index |-> i - 1, id |-> TcId(messages, i), name |-> <<name>>,
            arguments |-> <<raw>>])
    /\ UNCHANGED <<tobj, mobj, manifest, orchVars, schedVars, chatVars, files_modified,
                   verify_attempts, stream, openVars, llmVars>>

\* The stream ends: the accumulated calls are finalized and dispatched; the
\* next round starts with "tool_calls_acc = {}".
TurnEnd(text) ==
    LET l == tool_calls_list(tool_calls_acc) IN
    /\ FinishRound([i \in 1..Len(l) |-> l[i].name[1]],
                   [i \in 1..Len(l) |-> l[i].arguments[1]], text)
    /\ tool_calls_acc' = <<>>
    /\ UNCHANGED <<files_modified, verify_attempts, stream, openVars, llmVars>>

\* The plans submit_plan returns have at most one task here.
NextTurn ==
    \/ StreamChunk
    \/ \E i \in 1..MaxCalls : \E name \in tool_names(active_agent) :
          \E raw \in {"json", "malformed"} : TurnDelta(i, name, raw)
    \/ StreamError
    \/ StreamErrorResult
    \/ \E text \in BOOLEAN : TurnEnd(text)
    \/ \E name \in ToolNames : \E result \in ToolResults(name) :
          Len(result.plan) <= 1 /\ ToolDone(result)
    \/ ToolPost

SpecTurn == InitLoop /\ [][NextTurn]_vars

\* C33: a failure raised while the stream of a round is consumed is
\* terminal: an error event is yielded, the loop returns with an error
\* result, and between the failure and the return no turn is appended and
\* no call is dispatched: the calls accumulated in the round are not
\* executed and no further model call is made.
C33_StreamFailureIsTerminal ==
    [][/\ (pc = "stream" /\ pc' = "llm_error")
          => /\ \E k \in 1..Len(out') : out'[k].type = "error"
             /\ messages' = messages /\ calls' = calls /\ ci' = ci
       /\ (pc = "llm_error" /\ pc' # pc)
          => /\ pc' = "ret" /\ term' = "error"
             /\ agents'[active_agent].result.status = "error"
             /\ messages' = messages /\ calls' = calls /\ ci' = ci]_vars

\* The loop has returned after a failure of a stream that had delivered a
\* tool call; in an earlier round a tool call was executed.
C33_Witness ==
    /\ pc = "ret" /\ term = "error"
    /\ agents[active_agent].result.status = "error"
    /\ tool_calls_acc # <<>>
    /\ round > 0

\* ------------------------------------------------------------------ context pruning
CONTEXT_PRUNE_KEEP_LAST_N == 4

\* The marker turn that stands for pruned_count turns.
Summary(pruned_count) ==
    [role |-> "system", tool_calls |-> <<>>, tool_call_id |-> 0, pruned |-> pruned_count]

\* Mutant: the suffix kept is KEEP_LAST_N turns, not KEEP_LAST_N pairs.
prune_messages_keeps_n_turns(msgs) ==
    LET keep_count == CONTEXT_PRUNE_KEEP_LAST_N
    IN  IF Len(msgs) <= 2 + keep_count THEN msgs
        ELSE LET keep_prefix == SubSeq(msgs, 1, 2)
                 keep_suffix == SubSeq(msgs, Len(msgs) - keep_count + 1, Len(msgs))
                 pruned_count == Len(msgs) - Len(keep_prefix) - Len(keep_suffix)
             IN  keep_prefix \o <<Summary(pruned_count)>> \o keep_suffix

\* BaseAgent._prune_messages
prune_messages(msgs) ==
    LET keep_count == CONTEXT_PRUNE_KEEP_LAST_N * 2
    IN  IF Len(msgs) <= 2 + keep_count THEN msgs
        ELSE LET keep_prefix == SubSeq(msgs, 1, 2)
                 keep_suffix == SubSeq(msgs, Len(msgs) - keep_count + 1, Len(msgs))
                 pruned_count == Len(msgs) - Len(keep_prefix) - Len(keep_suffix)
             IN  keep_prefix \o <<Summary(pruned_count)>> \o keep_suffix

\* ------------------------------------------------------------------ implementation agents
\* BaseAgent.run(state, task) of the implementation agents (agents/base.py),
\* for an agent with the base _post_loop_hook that may call read_file and
\* write_file; the model may also name scaffold_project, which is not in
\* its tool_names, and send arguments that do not parse.
RunRounds == 4       \* max_tool_rounds of the agent
RunCalls == 1        \* tool calls in one model turn

MAX_VERIFY_ATTEMPTS == 2

run_tool_names == {"read_file", "write_file"}

RunNames == run_tool_names \cup {"scaffold_project"}

\* What run() never touches.
runFrame == <<heapVars, stateVars, saved, session_cancelled, active_agent, current_task,
              agents, origin, ctx, cont, tres, term, envVars, dpc, drained, arg,
              chatVars, tool_calls_acc, stream, openVars, llmVars>>

InitRun ==
    /\ tobj = <<>>
    /\ mobj = <<>>
    /\ manifest = 0
    /\ dpc = "done"
    /\ drained = <<>>
    /\ op = "none"
    /\ ret = 0
    /\ arg = 0
    /\ InitSession
    /\ NoRun
    /\ NoOpen
    /\ NoLlm

\* Steps 4 and 5: the post-loop hook yields nothing and agent_result carries
\* the result of _build_success_result.
RunResult(msgs) ==
    /\ messages' = msgs
    /\ ret' = "success"
    /\ Goto("end", FALSE, <<Ev("agent_result", 0)>>)
    /\ UNCHANGED round

\* Top of "for _round in range(self.max_tool_rounds)" with r rounds done and
\* the messages msgs: the loop is left when it is exhausted, else the
\* messages are pruned when over the token budget and the model is called.
RunLoopTop(r, msgs, over, evs) ==
    IF r >= RunRounds
    THEN RunResult(msgs)
    ELSE /\ round' = r
         /\ messages' = IF over THEN prune_messages(msgs) ELSE msgs
         /\ ret' = ret
         /\ Goto("stream", TRUE, evs)

\* run() is called with a task that _validate_task accepts or not.
RunStart(valid, over) ==
    /\ pc = "idle" /\ op = "none"
    /\ op' = "run"
    /\ IF ~valid
       THEN /\ ret' = "error"
            /\ Goto("end", FALSE, <<Ev("agent_result", 0)>>)
            /\ UNCHANGED <<messages, round>>
       ELSE RunLoopTop(0, FirstMessages, over, <<>>)
    /\ files_modified' = <<>>
    /\ verify_attempts' = 0
    /\ UNCHANGED <<runFrame, calls, ci>>

\* chat_completion_stream raises: the error event and agent_result with an
\* error result are yielded and run() returns.
RunStreamError ==
    /\ pc = "stream"
    /\ ret' = "error"
    /\ Goto("end", FALSE, <<Ev("error", 0), Ev("agent_result", 0)>>)
    /\ UNCHANGED <<runFrame, op, messages, round, calls, ci, files_modified,
                   verify_attempts>>

\* "for tc in tool_calls_list" at position i of the calls cs, with the
\* messages msgs: malformed arguments and a name outside tool_names are
\* answered by a tool turn with an error and the loop goes on with the next
\* call at the tool_call_result event; any other call is started.
RunToolTop(cs, i, msgs, over) ==
    IF i > Len(cs)
    THEN /\ RunLoopTop(round + 1, msgs, over, <<>>)
         /\ ci' = 0
    ELSE /\ ci' = i
         /\ UNCHANGED <<round, ret>>
         /\ IF cs[i].arguments = "malformed" \/ cs[i].name \notin run_tool_names
            THEN /\ messages' = Append(msgs, Turn("tool", <<>>, cs[i].id))
                 /\ Goto("deflected", TRUE, <<Ev("tool_call_result", cs[i].id)>>)
            ELSE /\ messages' = msgs
                 /\ Goto("exec", TRUE, <<Ev("tool_call_start", cs[i].id)>>)

\* The stream ends with the tool calls names, their argument texts raw, and
\* with text when text is TRUE. Without tool calls the run is over unless
\* modified files are still to be verified.
RunModelTurn(names, raw, text, over) ==
    /\ pc = "stream"
    /\ IF names # <<>>
       THEN LET cs == [i \in 1..Len(names) |->
                          [name |-> names[i], id |-> TcId(messages, i),
                           arguments |-> raw[i]]]
            IN  /\ calls' = cs
                /\ RunToolTop(cs, 1,
                      Append(messages, Turn("assistant", [i \in 1..Len(cs) |-> cs[i].id], 0)),
                      over)
       ELSE LET msgs == IF text THEN Append(messages, Turn("assistant", <<>>, 0))
                        ELSE messages
            IN  /\ IF files_modified # <<>> /\ verify_attempts < MAX_VERIFY_ATTEMPTS
                   THEN /\ messages' = msgs
                        /\ Goto("verify", TRUE, <<>>)
                        /\ UNCHANGED <<round, ret>>
                   ELSE RunResult(msgs)
                /\ UNCHANGED <<calls, ci>>
    /\ UNCHANGED <<runFrame, op, files_modified, verify_attempts>>

\* After the tool_call_result event of a deflected call: the next call.
RunDeflected(over) ==
    /\ pc = "deflected"
    /\ RunToolTop(calls, ci + 1, messages, over)
    /\ UNCHANGED <<runFrame, op, calls, files_modified, verify_attempts>>

\* execute_tool returns or raises: either way a tool turn is appended and
\* the tool_call_result event yielded.
RunToolDone ==
    /\ pc = "exec"
    /\ messages' = Append(messages, Turn("tool", <<>>, calls[ci].id))
    /\ Goto("tool_result", TRUE, <<Ev("tool_call_result", calls[ci].id)>>)
    /\ UNCHANGED <<runFrame, op, ret, round, calls, ci, files_modified, verify_attempts>>

\* ApiAgent._track_tool_result
track_tool_result(func_name, files) ==
    IF func_name \in {"write_file", "edit_file"} THEN Append(files, "path") ELSE files

\* After the tool_call_result event: the call is tracked, then the next call.
RunToolPost(over) ==
    /\ pc = "tool_result"
    /\ files_modified' = track_tool_result(calls[ci].name, files_modified)
    /\ RunToolTop(calls, ci + 1, messages, over)
    /\ UNCHANGED <<runFrame, op, calls, verify_attempts>>

\* Mutant: a failed verification is not counted.
RunVerified_uncounted(found) ==
    /\ pc = "verify"
    /\ IF found
       THEN /\ verify_attempts' = verify_attempts
            /\ messages' = Append(messages, Turn("user", <<>>, 0))
            /\ Goto("corrected", TRUE, <<Ev("error", 0)>>)
            /\ UNCHANGED <<round, ret>>
       ELSE /\ RunResult(messages)
            /\ UNCHANGED verify_attempts
    /\ UNCHANGED <<runFrame, op, calls, ci, files_modified>>

\* _verify_files returns: when it found errors the attempt is counted, a
\* user turn with the errors appended and an error event yielded, else the
\* loop is left.
RunVerified(found) ==
    /\ pc = "verify"
    /\ IF found
       THEN /\ verify_attempts' = verify_attempts + 1
            /\ messages' = Append(messages, Turn("user", <<>>, 0))
            /\ Goto("corrected", TRUE, <<Ev("error", 0)>>)
            /\ UNCHANGED <<round, ret>>
       ELSE /\ RunResult(messages)
            /\ UNCHANGED verify_attempts
    /\ UNCHANGED <<runFrame, op, calls, ci, files_modified>>

\* After the error event of a failed verification: "continue".
RunCorrected(over) ==
    /\ pc = "corrected"
    /\ RunLoopTop(round + 1, messages, over, <<>>)
    /\ UNCHANGED <<runFrame, op, calls, ci, files_modified, verify_attempts>>

NextRun ==
    \/ \E valid, over \in BOOLEAN : RunStart(valid, over)
    \/ RunStreamError
    \/ \E n \in 0..RunCalls : \E names \in [1..n -> RunNames] :
          \E raw \in [1..n -> {"json", "malformed"}] : \E text, over \in BOOLEAN :
             RunModelTurn(names, raw, text, over)
    \/ \E over \in BOOLEAN : RunDeflected(over)
    \/ RunToolDone
    \/ \E over \in BOOLEAN : RunToolPost(over)
    \/ \E found \in BOOLEAN : RunVerified(found)
    \/ \E over \in BOOLEAN : RunCorrected(over)

SpecRun == InitRun /\ [][NextRun]_vars

\* The correction turns of the conversation: the user turns after the task
\* instruction.
Corrections == {k \in 3..Len(messages) : messages[k].role = "user"}

\* C24: with verification the run injects at most MAX_VERIFY_ATTEMPTS
\* correction turns; once verification has failed on attempt 1 and 2, a
\* model turn without tool calls ends the run with a success result instead
\* of a third verification; and the model is never called after
\* max_tool_rounds rounds.
C24_VerificationBounded ==
    [][/\ verify_attempts' <= MAX_VERIFY_ATTEMPTS
       /\ Cardinality(Corrections') <= MAX_VERIFY_ATTEMPTS
       /\ pc' \in {"stream", "exec", "verify"} => round' < RunRounds
       /\ (/\ pc = "stream" /\ verify_attempts = MAX_VERIFY_ATTEMPTS
           /\ pc' \notin {"exec", "deflected"} /\ ret' # "error")
          => pc' = "end" /\ ret' = "success"]_vars

\* Verification failed twice and the run then ended with success before its
\* rounds were used up.
C24_Witness ==
    /\ pc = "end" /\ ret = "success"
    /\ verify_attempts = MAX_VERIFY_ATTEMPTS
    /\ Cardinality(Corrections) = MAX_VERIFY_ATTEMPTS
    /\ round < RunRounds

\* ------------------------------------------------------------------ pruning calls
\* _prune_messages applied, once and once more, to the conversations run()
\* builds: the system turn and the task instruction, then rounds of an
\* assistant turn with its tool calls and the tool turns that answer them.
PruneRounds == 5     \* rounds of the conversation
PruneCalls == 2      \* tool calls in one model turn

\* The messages msgs after one more round of k tool calls.
RoundTurns(msgs, k) ==
    msgs \o <<Turn("assistant", [i \in 1..k |-> TcId(msgs, i)], 0)>>
         \o [i \in 1..k |-> Turn("tool", <<>>, TcId(msgs, i))]

RECURSIVE Conversations(_)
Conversations(n) ==
    IF n = 0 THEN {FirstMessages}
    ELSE LET shorter == Conversations(n - 1)
         IN  shorter \cup {RoundTurns(m, k) : m \in shorter, k \in 1..PruneCalls}

InitPrune ==
    /\ tobj = <<>>
    /\ mobj = <<>>
    /\ manifest = 0
    /\ dpc = "done"
    /\ drained = <<>>
    /\ op = "none"
    /\ ret = 0
    /\ arg \in Conversations(PruneRounds)
    /\ InitSession
    /\ NoRun
    /\ NoOpen
    /\ NoLlm

\* The list is over the token budget: context.messages = _prune_messages(...)
PruneOnce ==
    /\ op = "none"
    /\ op' = "prune"
    /\ ret' = prune_messages(arg)
    /\ UNCHANGED <<tobj, mobj, manifest, orchVars, dpc, drained, arg, chatVars, otherVars>>

\* The pruned list is still over the budget and is pruned once more.
PruneAgain ==
    /\ op = "prune"
    /\ op' = "prune_again"
    /\ ret' = prune_messages(ret)
    /\ UNCHANGED <<tobj, mobj, manifest, orchVars, dpc, drained, arg, chatVars, otherVars>>

NextPrune == PruneOnce \/ PruneAgain

SpecPrune == InitPrune /\ [][NextPrune]_vars

\* The last n turns of msgs.
Last(msgs, n) == SubSeq(msgs, Len(msgs) - n + 1, Len(msgs))

\* C25: pruning is idempotent: applying _prune_messages twice in succession
\* gives the same list as applying it once; the second application neither
\* elides nor rewrites the marker.
C25_PruneIdempotent ==
    op = "prune_again" => ret = prune_messages(arg)

\* C27: on a list of more than 2 + 2 * CONTEXT_PRUNE_KEEP_LAST_N turns
\* _prune_messages returns the first two turns, one marker stating the number
\* of turns elided, and the last 2 * CONTEXT_PRUNE_KEEP_LAST_N turns; a
\* shorter list is returned unchanged; after a second application the first
\* two turns and the last 2 * CONTEXT_PRUNE_KEEP_LAST_N turns are those of
\* the first.
C27_PruneKeepsEnds ==
    LET keep == 2 * CONTEXT_PRUNE_KEEP_LAST_N
        long == Len(arg) > 2 + keep
    IN  /\ (op = "prune" /\ long) =>
              /\ Len(ret) = 2 + 1 + keep
              /\ SubSeq(ret, 1, 2) = SubSeq(arg, 1, 2)
              /\ ret[3].role = "system" /\ ret[3].pruned = Len(arg) - 2 - keep
              /\ Last(ret, keep) = Last(arg, keep)
        /\ (op = "prune" /\ ~long) => ret = arg
        /\ (op = "prune_again" /\ long) =>
              /\ SubSeq(ret, 1, 2) = SubSeq(arg, 1, 2)
              /\ Last(ret, keep) = Last(arg, keep)
        /\ (op = "prune_again" /\ ~long) => ret = arg

\* A list that loses more than one turn has been pruned twice.
C27_Witness ==
    /\ op = "prune_again"
    /\ Len(arg) > 2 + 2 * CONTEXT_PRUNE_KEEP_LAST_N + 1

\* The tool calls of the assistant turns of msgs before position k.
CallsBefore(msgs, k) ==
    UNION {SeqToSet(msgs[j].tool_calls) : j \in {j \in 1..(k - 1) : msgs[j].role = "assistant"}}

\* Every tool turn of msgs answers a tool call of an assistant turn before
\* it, and every tool call of an assistant turn is answered by exactly one
\* tool turn.
ToolTurnsPaired(msgs) ==
    /\ \A k \in 1..Len(msgs) :
          msgs[k].role = "tool" => msgs[k].tool_call_id \in CallsBefore(msgs, k)
    /\ \A id \in CallsBefore(msgs, Len(msgs) + 1) :
          Cardinality({k \in 1..Len(msgs) :
                          msgs[k].role = "tool" /\ msgs[k].tool_call_id = id}) = 1

\* C28: in every message list sent to the model each tool turn references a
\* tool call of an assistant turn earlier in the list and every tool call
\* of an assistant turn is answered by exactly one tool turn, after pruning
\* too.
C28_ToolTurnsPaired ==
    op = "prune" => ToolTurnsPaired(ret)

\* ------------------------------------------------------------------ session registry
\* chat_ws up to the session of the connection: _get_or_create_session for
\* several connections to one project, each suspended at its awaits.
Opening(p, session) == [pc |-> p, session |-> session]

InitOpen ==
    /\ tobj = <<>>
    /\ mobj = <<>>
    /\ manifest = 0
    /\ dpc = "done"
    /\ drained = <<>>
    /\ op = "none"
    /\ ret = 0
    /\ arg = 0
    /\ InitSession
    /\ NoRun
    /\ sessions = 0
    /\ opening = [c \in Conns |-> Opening("accept", 0)]
    /\ created = 0
    /\ NoLlm

\* "if project_id in _sessions: return _sessions[project_id]", else
\* get_project is awaited.
OpenLookup(c) ==
    /\ opening[c].pc = "accept"
    /\ opening' = [opening EXCEPT ![c] =
                      IF sessions # 0 THEN Opening("open", sessions)
                      ELSE Opening("get_project", 0)]
    /\ UNCHANGED <<tobj, mobj, manifest, orchVars, schedVars, chatVars, runVars, llmVars,
                   sessions, created>>

\* get_project returns: without a project the connection is closed, else an
\* OrchestratorSession is created and restore_state awaited.
OpenProject(c, found) ==
    /\ opening[c].pc = "get_project"
    /\ IF found
       THEN /\ created' = created + 1
            /\ opening' = [opening EXCEPT ![c] = Opening("restore", created + 1)]
       ELSE /\ created' = created
            /\ opening' = [opening EXCEPT ![c] = Opening("closed", 0)]
    /\ UNCHANGED <<tobj, mobj, manifest, orchVars, schedVars, chatVars, runVars, llmVars, sessions>>

\* restore_state returns: "_sessions[project_id] = session; return session".
OpenRestored(c) ==
    /\ opening[c].pc = "restore"
    /\ sessions' = opening[c].session
    /\ opening' = [opening EXCEPT ![c] = Opening("open", opening[c].session)]
    /\ UNCHANGED <<tobj, mobj, manifest, orchVars, schedVars, chatVars, runVars, llmVars, created>>

\* WebSocketDisconnect on an open connection; the registry keeps the session.
OpenDisconnect(c) ==
    /\ opening[c].pc = "open"
    /\ opening' = [opening EXCEPT ![c] = Opening("closed", opening[c].session)]
    /\ UNCHANGED <<tobj, mobj, manifest, orchVars, schedVars, chatVars, runVars, llmVars,
                   sessions, created>>

\* The receive loop of chat_ws: a frame arrives on an open connection and is
\* handled by the session the connection has got.
OpenReceive(c) ==
    /\ opening[c].pc = "open"
    /\ frames[c] < MaxFrames
    /\ frames' = [frames EXCEPT ![c] = @ + 1]
    /\ UNCHANGED <<tobj, mobj, manifest, orchVars, schedVars, agent_task, otherVars>>

NextOpen ==
    \E c \in Conns :
        \/ OpenLookup(c)
        \/ \E found \in BOOLEAN : OpenProject(c, found)
        \/ OpenRestored(c)
        \/ OpenReceive(c)
        \/ OpenDisconnect(c)

SpecOpen == InitOpen /\ [][NextOpen]_vars

\* The sessions the connections of the project have got.
SessionsInUse == {opening[c].session : c \in {d \in Conns : opening[d].pc = "open"}}

\* C26: at most one OrchestratorSession is ever created and used per
\* project id, whatever the interleaving of the connection openings.
C26_OneSessionPerProject ==
    /\ created <= 1
    /\ Cardinality(SessionsInUse) <= 1


\* ------------------------------------------------------------------ the model stream
\* chat_completion_stream: the creation of the stream is tried in a loop,
\* then the chunks of the stream are yielded.
LlmChunks == 2

LLM_MAX_RETRIES == 3
LLM_RETRY_BASE_DELAY_SECONDS == 1
LLM_RETRY_MAX_DELAY_SECONDS == 15
LLM_RETRYABLE_STATUS_CODES == {429, 500, 502, 503, 504}

\* An exception of client.chat.completions.create or of the stream.
Exc(type, status_code) == [type |-> type, status_code |-> status_code]

\* What create may raise: the three classes the code tells apart, with a
\* retryable and a non-retryable status code, and any other exception.
Exceptions ==
    {Exc("APITimeoutError", 0), Exc("APIConnectionError", 0),
     Exc("APIStatusError", 429), Exc("APIStatusError", 503),
     Exc("APIStatusError", 400), Exc("ValueError", 0)}

\* The create call returned a stream.
Connected == Exc("none", 0)

_is_retryable(exc) ==
    \/ exc.type = "APITimeoutError"
    \/ exc.type = "APIConnectionError"
    \/ exc.type = "APIStatusError" /\ exc.status_code \in LLM_RETRYABLE_STATUS_CODES

min(a, b) == IF a <= b THEN a ELSE b

\* What chat_completion_stream never touches.
llmFrame == <<tobj, mobj, manifest, orchVars, dpc, drained, ret, arg, chatVars, runVars,
              openVars>>

InitLlm ==
    /\ tobj = <<>>
    /\ mobj = <<>>
    /\ manifest = 0
    /\ dpc = "done"
    /\ drained = <<>>
    /\ op = "none"
    /\ ret = 0
    /\ arg = 0
    /\ InitSession
    /\ NoRun
    /\ NoOpen
    /\ NoLlm

\* The generator is started: "for attempt in range(1, LLM_MAX_RETRIES + 1)".
LlmCall ==
    /\ op = "none"
    /\ op' = "create"
    /\ attempt' = 1
    /\ UNCHANGED <<llmFrame, raised, slept, yielded>>

\* Mutant: any failure before the last attempt is retried.
LlmCreate_retries_any_failure(exc) ==
    /\ op = "create"
    /\ raised' = Append(raised, exc)
    /\ IF exc = Connected
       THEN op' = "stream" /\ UNCHANGED slept
       ELSE IF attempt < LLM_MAX_RETRIES
       THEN /\ slept' = Append(slept, min(LLM_RETRY_BASE_DELAY_SECONDS * 2^(attempt - 1),
                                          LLM_RETRY_MAX_DELAY_SECONDS))
            /\ op' = "sleep"
       ELSE op' = "raised" /\ UNCHANGED slept
    /\ UNCHANGED <<llmFrame, attempt, yielded>>

\* "stream = await client.chat.completions.create(**kwargs)" returns a
\* stream (break) or raises exc: a retryable exc before the last attempt
\* leads to asyncio.sleep(delay), any other is raised to the caller.
LlmCreate(exc) ==
    /\ op = "create"
    /\ raised' = Append(raised, exc)
    /\ IF exc = Connected
       THEN op' = "stream" /\ UNCHANGED slept
       ELSE IF attempt < LLM_MAX_RETRIES /\ _is_retryable(exc)
       THEN /\ slept' = Append(slept, min(LLM_RETRY_BASE_DELAY_SECONDS * 2^(attempt - 1),
                                          LLM_RETRY_MAX_DELAY_SECONDS))
            /\ op' = "sleep"
       ELSE op' = "raised" /\ UNCHANGED slept
    /\ UNCHANGED <<llmFrame, attempt, yielded>>

\* asyncio.sleep returns: the next attempt of the loop.
LlmWake ==
    /\ op = "sleep"
    /\ op' = "create"
    /\ attempt' = attempt + 1
    /\ UNCHANGED <<llmFrame, raised, slept, yielded>>

\* "async for chunk in stream: yield chunk".
LlmChunk ==
    /\ op = "stream"
    /\ yielded < LlmChunks
    /\ yielded' = yielded + 1
    /\ UNCHANGED <<llmFrame, op, attempt, raised, slept>>

\* The stream raises while it is iterated: the exception goes to the caller.
LlmStreamError(exc) ==
    /\ op = "stream"
    /\ raised' = Append(raised, exc)
    /\ op' = "raised"
    /\ UNCHANGED <<llmFrame, attempt, slept, yielded>>

\* The stream ends: so does the generator.
LlmStreamEnd ==
    /\ op = "stream"
    /\ op' = "done"
    /\ UNCHANGED <<llmFrame, attempt, raised, slept, yielded>>

NextLlm ==
    \/ LlmCall
    \/ \E exc \in Exceptions \cup {Connected} : LlmCreate(exc)
    \/ LlmWake
    \/ LlmChunk
    \/ \E exc \in Exceptions : LlmStreamError(exc)
    \/ LlmStreamEnd

SpecLlm == InitLlm /\ [][NextLlm]_vars

\* The create calls made so far: one per exception raised at creation plus
\* the one that connected.
Creations ==
    {k \in 1..Len(raised) :
        \A j \in 1..(k - 1) : raised[j] # Connected}

\* C32: chat_completion_stream makes at most LLM_MAX_RETRIES create calls;
\* every create call but the last followed a retryable failure, and the
\* wait before attempt k + 1 was min(1 * 2^(k - 1), 15) seconds; a failure
\* that is not retryable or is the one of the last attempt is raised; after
\* the stream is created no create call is made again, whatever happens to
\* the stream.
C32_RetryOnlyCreation ==
    /\ attempt <= LLM_MAX_RETRIES
    /\ Cardinality(Creations) <= LLM_MAX_RETRIES
    /\ \A k \in 1..Len(raised) :
          /\ k < attempt => raised[k] # Connected /\ _is_retryable(raised[k])
          /\ (k > attempt) => (k = attempt + 1 /\ raised[attempt] = Connected)
    /\ Len(slept) = (IF op = "sleep" THEN attempt ELSE IF attempt = 0 THEN 0 ELSE attempt - 1)
    /\ \A k \in 1..Len(slept) : slept[k] = min(2^(k - 1), 15)
    /\ (op = "raised" /\ raised[attempt] # Connected)
          => (~_is_retryable(raised[attempt]) \/ attempt = LLM_MAX_RETRIES)
    /\ (op = "sleep") => (_is_retryable(raised[attempt]) /\ attempt < LLM_MAX_RETRIES)
    /\ (op \in {"stream", "done"}) => raised[attempt] = Connected

\* The last attempt failed with a retryable error after two waits.
C32_Witness ==
    /\ op = "raised"
    /\ attempt = LLM_MAX_RETRIES
    /\ slept = <<1, 2>>
    /\ \A k \in 1..LLM_MAX_RETRIES : _is_retryable(raised[k])
    /\ yielded = 0

====
